---- MODULE Spec2Model ----
(***************************************************************************)
(* Runtime type-safety subsystem of kotcollections: TypeChecker, the       *)
(* KotMutableList operations, the typed-variant factory, the mutable set   *)
(* and map, and the conversions between container kinds.                   *)
(*                                                                         *)
(* A Python class is modelled by its method resolution order: a sequence   *)
(* of class names, most derived first, ending in "object".  A class name   *)
(* is a sequence of tokens, so that "KotMutableList[Dog]" is               *)
(* <<"KotMutableList", "[", "Dog", "]">> and the prefix test of            *)
(* _is_class_getitem_type_match can be computed.  None is <<>>.            *)
(***************************************************************************)
EXTENDS Naturals, Integers, Sequences, FiniteSets, TLC

VARIABLES
    subject, \* the kind of container at hand: "list", "set" or "map"
    decl,    \* the class the container was declared with, or None
    batch,   \* the initial elements handed to the constructor
    lst,     \* the KotMutableList at hand
    op,      \* the name of the last call
    err,     \* the exception the last call raised, or "none"
    lst2,    \* a second KotMutableList, built through the bracket syntax
    err2,    \* the exception of the last call on lst2
    kset,    \* the KotMutableSet at hand
    kmap,    \* the KotMutableMap at hand
    col,     \* the container a chain of conversions has produced
    origin,  \* the container the chain of conversions started from
    msg,     \* the message of the exception the last call raised, or None
    view,    \* the sub_list view of lst: its _start and _end, or None
    it,      \* the MutableListIterator over lst, or None
    legal,   \* history: a next() or previous() of the iterator has returned
             \* and no remove() or add() has completed since
    returned \* history: the element the latest next() or previous() has
             \* returned, and whether a set() has replaced it since

vars ==
    <<subject, decl, batch, lst, op, err, lst2, err2, kset, kmap, col, origin,
      msg, view, it, legal, returned>>

(* Bounds of the model. *)
MaxLen == 3
MaxBatch == 2

(***************************************************************************)
(* Classes                                                                 *)
(***************************************************************************)
None == <<>>

Object == << <<"object">> >>

Class(name, base) == << <<name>> >> \o base

Str == Class("str", Object)

Animal == Class("Animal", Object)

Dog == Class("Dog", Animal)

Cat == Class("Cat", Animal)

KotList == Class("KotList", Object)

KotMutableList == Class("KotMutableList", KotList)

KotSet == Class("KotSet", Object)

KotMutableSet == Class("KotMutableSet", KotSet)

KotMap == Class("KotMap", Object)

KotMutableMap == Class("KotMutableMap", KotMap)

(* typing.TypeVar('T'): a value with a __name__ that is not a class. *)
TypeVarT == << <<"T">> >>

__name__(t) == t[1]

__base__(t) == Tail(t)

(* isinstance(t, type) *)
IsType(t) == Len(t) > 0 /\ t[Len(t)] = <<"object">>

(* issubclass(c, t) for classes c, t *)
issubclass(c, t) == \E k \in 1..Len(c) : SubSeq(c, k, Len(c)) = t

(* The builtin classes list and int. *)
PyList == Class("list", Object)

PyInt == Class("int", Object)

(* The classes KotList[Dog] and KotMutableList[Dog], as __class_getitem__  *)
(* makes them.                                                             *)
KotListOfDog == << <<"KotList", "[", "Dog", "]">> >> \o KotList

KotMutableListOfDog ==
    << <<"KotMutableList", "[", "Dog", "]">> >> \o KotMutableList

(* The elements of the model, by name. *)
Values == {"animal", "dog", "cat", "hello", "mlist"}

(* type(element): the runtime class of each element *)
type(element) ==
    CASE element = "animal" -> Animal
      [] element = "dog" -> Dog
      [] element = "cat" -> Cat
      [] element = "hello" -> Str
      [] element = "mlist" -> KotMutableList
      [] element = "klist" -> KotList
      [] element = "doglist" -> KotMutableListOfDog
      [] element = "kdoglist" -> KotListOfDog
      [] element = "pylist" -> PyList
      [] element = "one" -> PyInt

(* the alphabetical rank of each element's name *)
alphabetical ==
    ("animal" :> 1) @@ ("cat" :> 2) @@ ("dog" :> 3) @@ ("hello" :> 4)
    @@ ("mlist" :> 5)

(* isinstance(element, t): the element's runtime class derives from t *)
isinstance(element, t) == issubclass(type(element), t)

(* str.startswith on token sequences *)
startswith(s, prefix) ==
    /\ Len(prefix) <= Len(s)
    /\ SubSeq(s, 1, Len(prefix)) = prefix

(***************************************************************************)
(* TypeChecker                                                             *)
(***************************************************************************)
(* _is_class_getitem_type_match that matches nothing *)
_is_class_getitem_type_match_never(element, expected_type) == FALSE

_is_class_getitem_type_match(element, expected_type) ==
    LET base == __base__(expected_type)
        base_class_name == IF Len(base) = 0 THEN <<>> ELSE __name__(base)
        type_name == __name__(expected_type)
    IN  IF base_class_name = <<>> THEN FALSE
        ELSE IF ~(/\ startswith(type_name, base_class_name \o <<"[">>)
                  /\ \E i \in 1..Len(type_name) : type_name[i] = "]")
             THEN FALSE
             ELSE isinstance(element, base)

(* is_valid_element_type without the subclass rule: an exact class match *)
is_valid_element_type_exact(element, expected_type) ==
    IF expected_type = None THEN TRUE
    ELSE IF ~IsType(expected_type) THEN TRUE
    ELSE type(element) = expected_type

is_valid_element_type(element, expected_type) ==
    IF expected_type = None THEN TRUE
    ELSE IF ~IsType(expected_type) THEN TRUE
    ELSE IF isinstance(element, expected_type) THEN TRUE
    ELSE IF _is_class_getitem_type_match(element, expected_type) THEN TRUE
    ELSE FALSE

(* infer_element_type that infers the topmost user class of the element *)
infer_element_type_root(element, collection_base_class) ==
    IF isinstance(element, collection_base_class)
    THEN collection_base_class
    ELSE SubSeq(type(element), Len(type(element)) - 1, Len(type(element)))

(* infer_element_type without the special case for containers *)
infer_element_type_concrete(element, collection_base_class) == type(element)

infer_element_type(element, collection_base_class) ==
    IF isinstance(element, collection_base_class)
    THEN collection_base_class
    ELSE type(element)

(* validate_element that names neither the element's nor the expected type *)
validate_element_terse(element, expected_type, collection_name) ==
    IF ~is_valid_element_type(element, expected_type)
    THEN <<"Cannot add element">>
    ELSE None

(* The message of the TypeError validate_element raises, None if it       *)
(* returns.                                                               *)
validate_element(element, expected_type, collection_name) ==
    IF ~is_valid_element_type(element, expected_type)
    THEN LET expected_name == __name__(expected_type)
             element_type_name == __name__(type(element))
         IN  <<"Cannot add element of type '">> \o element_type_name
                 \o <<"' to ">> \o collection_name
                 \o <<"[">> \o expected_name \o <<"]">>
    ELSE None

(***************************************************************************)
(* Values and call results                                                 *)
(***************************************************************************)
(* The outcome of a call: the object afterwards and the exception raised. *)
Ok(self) == [self |-> self, err |-> "none"]

Raise(self, e) == [self |-> self, err |-> e]

(* A TypeError with its message. *)
RaiseTypeError(self, message) ==
    [self |-> self, err |-> "TypeError", msg |-> message]

size(self) == Len(self.elements)

(***************************************************************************)
(* KotList: type inference and validation on insertion                     *)
(***************************************************************************)
(* _check_type that binds the class of every element it accepts *)
_check_type_narrowing(self, element) ==
    IF self.element_type = None
    THEN Ok([self EXCEPT !.element_type = infer_element_type(element, KotList)])
    ELSE IF validate_element(element, self.element_type, <<"KotList">>) = None
         THEN Ok([self EXCEPT !.element_type = type(element)])
         ELSE RaiseTypeError(self, validate_element(element, self.element_type,
                                                    <<"KotList">>))

_check_type(self, element) ==
    IF self.element_type = None
    THEN Ok([self EXCEPT !.element_type = infer_element_type(element, KotList)])
    ELSE LET message == validate_element(element, self.element_type,
                                         <<"KotList">>)
         IN  IF message = None THEN Ok(self)
             ELSE RaiseTypeError(self, message)

(* for element in elements_list: self._check_type(element) *)
RECURSIVE check_each(_, _)
check_each(self, elements_list) ==
    IF elements_list = <<>> THEN Ok(self)
    ELSE LET r == _check_type(self, Head(elements_list))
         IN  IF r.err # "none" THEN r
             ELSE check_each(r.self, Tail(elements_list))

(* KotList.__init__, reached through KotMutableList.__init__ *)
KotList__init__(elements) ==
    LET self == [cls |-> KotMutableList, elements |-> <<>>, element_type |-> None]
        r == check_each(self, elements)
    IN  IF r.err # "none" THEN r
        ELSE Ok([r.self EXCEPT !.elements = elements])

KotMutableList__init__(elements) == KotList__init__(elements)

(***************************************************************************)
(* Typed variants                                                          *)
(***************************************************************************)
(* The class made by cls[element_type]: its name, its base and the         *)
(* element_type its __init__ closes over.                                  *)
__class_getitem__(cls, element_type) ==
    LET type_name == __name__(element_type)
    IN  [mro |-> << __name__(cls) \o <<"[">> \o type_name \o <<"]">> >> \o cls,
         element_type |-> element_type]

(* TypedKotMutableList.__init__ that leaves the type to inference *)
TypedKotMutableList__init__unbound(typed_class, elements) ==
    LET self == [cls |-> typed_class.mro,
                 elements |-> <<>>,
                 element_type |-> None]
        r == check_each(self, elements)
    IN  IF r.err # "none" THEN r
        ELSE Ok([r.self EXCEPT !.elements = elements])

(* TypedKotMutableList.__init__ that keeps whatever parameter it was given *)
TypedKotMutableList__init__declared(typed_class, elements) ==
    LET self == [cls |-> typed_class.mro,
                 elements |-> <<>>,
                 element_type |-> typed_class.element_type]
        r == check_each(self, elements)
    IN  IF r.err # "none" THEN r
        ELSE Ok([r.self EXCEPT !.elements = elements])

TypedKotMutableList__init__(typed_class, elements) ==
    LET self == [cls |-> typed_class.mro,
                 elements |-> <<>>,
                 element_type |-> IF IsType(typed_class.element_type)
                                  THEN typed_class.element_type
                                  ELSE None]
        r == check_each(self, elements)
    IN  IF r.err # "none" THEN r
        ELSE Ok([r.self EXCEPT !.elements = elements])

(* of_type that builds a plain list and sets its type afterwards *)
of_type_plain(cls, element_type, elements) ==
    LET r == KotMutableList__init__(elements)
    IN  IF r.err # "none" THEN r
        ELSE Ok([r.self EXCEPT !.element_type = element_type])

of_type(cls, element_type, elements) ==
    LET typed_class == __class_getitem__(cls, element_type)
    IN  TypedKotMutableList__init__(typed_class, elements)

(***************************************************************************)
(* KotMutableList operations                                               *)
(***************************************************************************)
(* list.insert / slice assignment: xs[:index] + ys + xs[index:] *)
insert(xs, index, ys) ==
    SubSeq(xs, 1, index) \o ys \o SubSeq(xs, index + 1, Len(xs))

(* list.pop(index), 0-based *)
pop(xs, index) == SubSeq(xs, 1, index) \o SubSeq(xs, index + 2, Len(xs))

(* [e for e in xs if keep(e)] for keep = membership in S, or its negation *)
RECURSIVE comprehension(_, _, _)
comprehension(xs, S, member) ==
    IF xs = <<>> THEN <<>>
    ELSE IF (Head(xs) \in S) = member
         THEN <<Head(xs)>> \o comprehension(Tail(xs), S, member)
         ELSE comprehension(Tail(xs), S, member)

(* set(elements) *)
set_of(xs) == {xs[i] : i \in 1..Len(xs)}

add(self, element) ==
    LET r == _check_type(self, element)
    IN  IF r.err # "none" THEN r
        ELSE Ok([r.self EXCEPT !.elements = Append(@, element)])

(* add_at that checks the element before the index *)
add_at_type_first(self, index, element) ==
    LET r == _check_type(self, element)
    IN  IF r.err # "none" THEN r
        ELSE IF ~(0 <= index /\ index <= size(self))
             THEN Raise(r.self, "IndexError")
             ELSE Ok([r.self EXCEPT !.elements = insert(@, index, <<element>>)])

add_at(self, index, element) ==
    IF ~(0 <= index /\ index <= size(self)) THEN Raise(self, "IndexError")
    ELSE LET r == _check_type(self, element)
         IN  IF r.err # "none" THEN r
             ELSE Ok([r.self EXCEPT !.elements = insert(@, index, <<element>>)])

(* add_all that checks and appends element by element *)
RECURSIVE add_all_one_by_one(_, _)
add_all_one_by_one(self, elements) ==
    IF elements = <<>> THEN Ok(self)
    ELSE LET r == add(self, Head(elements))
         IN  IF r.err # "none" THEN r
             ELSE add_all_one_by_one(r.self, Tail(elements))

add_all(self, elements) ==
    IF elements # <<>>
    THEN LET r == check_each(self, elements)
         IN  IF r.err # "none" THEN r
             ELSE Ok([r.self EXCEPT !.elements = @ \o elements])
    ELSE Ok(self)

add_all_at(self, index, elements) ==
    IF ~(0 <= index /\ index <= size(self)) THEN Raise(self, "IndexError")
    ELSE IF elements # <<>>
    THEN LET r == check_each(self, elements)
         IN  IF r.err # "none" THEN r
             ELSE Ok([r.self EXCEPT !.elements = insert(@, index, elements)])
    ELSE Ok(self)

set(self, index, element) ==
    IF ~(0 <= index /\ index < size(self)) THEN Raise(self, "IndexError")
    ELSE LET r == _check_type(self, element)
         IN  IF r.err # "none" THEN r
             ELSE Ok([r.self EXCEPT !.elements[index + 1] = element])

remove_at(self, index) ==
    IF ~(0 <= index /\ index < size(self)) THEN Raise(self, "IndexError")
    ELSE Ok([self EXCEPT !.elements = pop(@, index)])

(* list.remove: the first occurrence, ValueError swallowed *)
remove(self, element) ==
    IF \E i \in 1..size(self) : self.elements[i] = element
    THEN LET i == CHOOSE i \in 1..size(self) :
                    /\ self.elements[i] = element
                    /\ \A j \in 1..(i - 1) : self.elements[j] # element
         IN  Ok([self EXCEPT !.elements = pop(@, i - 1)])
    ELSE Ok(self)

remove_all(self, elements) ==
    Ok([self EXCEPT !.elements = comprehension(@, set_of(elements), FALSE)])

remove_first(self) ==
    IF size(self) = 0 THEN Raise(self, "IndexError")
    ELSE Ok([self EXCEPT !.elements = pop(@, 0)])

remove_last(self) ==
    IF size(self) = 0 THEN Raise(self, "IndexError")
    ELSE Ok([self EXCEPT !.elements = pop(@, size(self) - 1)])

retain_all(self, elements) ==
    Ok([self EXCEPT !.elements = comprehension(@, set_of(elements), TRUE)])

(* the predicate is membership in S *)
remove_if(self, S) ==
    Ok([self EXCEPT !.elements = comprehension(@, S, FALSE)])

(* for i in range(self.size): check the new element, then store it *)
RECURSIVE replace_all_from(_, _, _)
replace_all_from(self, operator, i) ==
    IF i >= size(self) THEN Ok(self)
    ELSE LET new_element == operator[self.elements[i + 1]]
             r == _check_type(self, new_element)
         IN  IF r.err # "none" THEN r
             ELSE replace_all_from(
                      [r.self EXCEPT !.elements[i + 1] = new_element],
                      operator, i + 1)

replace_all(self, operator) == replace_all_from(self, operator, 0)

(* clear that also forgets the bound type *)
clear_resetting(self) ==
    Ok([self EXCEPT !.elements = <<>>, !.element_type = None])

clear(self) == Ok([self EXCEPT !.elements = <<>>])

(* list.sort(key=selector): stable, ascending *)
RECURSIVE sorted_insert(_, _, _)
sorted_insert(xs, e, key) ==
    IF xs = <<>> THEN <<e>>
    ELSE IF key[e] < key[Head(xs)] THEN <<e>> \o xs
         ELSE <<Head(xs)>> \o sorted_insert(Tail(xs), e, key)

RECURSIVE sorted(_, _)
sorted(xs, key) ==
    IF xs = <<>> THEN <<>>
    ELSE sorted_insert(sorted(SubSeq(xs, 1, Len(xs) - 1), key), xs[Len(xs)], key)

sort(self, key) == Ok([self EXCEPT !.elements = sorted(@, key)])

reversed(xs) == [i \in 1..Len(xs) |-> xs[Len(xs) + 1 - i]]

reverse(self) == Ok([self EXCEPT !.elements = reversed(@)])

fill(self, value) ==
    Ok([self EXCEPT !.elements = [i \in 1..Len(@) |-> value]])

(***************************************************************************)
(* KotSet and KotMutableSet                                                *)
(***************************************************************************)
KotSet_check_type(self, element) ==
    IF self.element_type = None
    THEN Ok([self EXCEPT !.element_type = infer_element_type(element, KotSet)])
    ELSE IF is_valid_element_type(element, self.element_type)
         THEN Ok(self)
         ELSE Raise(self, "TypeError")

RECURSIVE KotSet_check_each(_, _)
KotSet_check_each(self, elements) ==
    IF elements = <<>> THEN Ok(self)
    ELSE LET r == KotSet_check_type(self, Head(elements))
         IN  IF r.err # "none" THEN r
             ELSE KotSet_check_each(r.self, Tail(elements))

(* cls(elements) for cls = KotSet or KotMutableSet *)
KotSet__init__(cls, elements) ==
    LET self == [cls |-> cls, elements |-> {}, element_type |-> None]
        r == KotSet_check_each(self, elements)
    IN  IF r.err # "none" THEN r
        ELSE Ok([r.self EXCEPT !.elements = set_of(elements)])

(* cls.of_type(element_type, elements) for cls = KotSet or KotMutableSet *)
KotSet_of_type(cls, element_type, elements) ==
    LET typed_class == __class_getitem__(cls, element_type)
        self == [cls |-> typed_class.mro,
                 elements |-> {},
                 element_type |-> IF IsType(element_type)
                                  THEN element_type
                                  ELSE None]
        r == KotSet_check_each(self, elements)
    IN  IF r.err # "none" THEN r
        ELSE Ok([r.self EXCEPT !.elements = set_of(elements)])

(* the reset that keeps the element type of the emptied set *)
KotMutableSet_reset_never(self) == self

(* the reset that forgets the element type after every removal *)
KotMutableSet_reset_always(self) == [self EXCEPT !.element_type = None]

(* an empty mutable set goes back to no element type *)
KotMutableSet_reset_if_empty(self) ==
    IF self.elements = {} THEN [self EXCEPT !.element_type = None] ELSE self

KotMutableSet_add(self, element) ==
    LET r == KotSet_check_type(self, element)
    IN  IF r.err # "none" THEN Raise(self, r.err)
        ELSE Ok([r.self EXCEPT !.elements = @ \cup {element}])

KotMutableSet_add_all(self, elements) ==
    LET r == KotSet_check_each(self, elements)
    IN  IF r.err # "none" THEN Raise(self, r.err)
        ELSE Ok([r.self EXCEPT !.elements = @ \cup set_of(elements)])

KotMutableSet_remove(self, element) ==
    Ok(KotMutableSet_reset_if_empty([self EXCEPT !.elements = @ \ {element}]))

KotMutableSet_remove_all(self, elements) ==
    Ok(KotMutableSet_reset_if_empty(
           [self EXCEPT !.elements = @ \ set_of(elements)]))

KotMutableSet_retain_all(self, elements) ==
    Ok(KotMutableSet_reset_if_empty(
           [self EXCEPT !.elements = @ \cap set_of(elements)]))

KotMutableSet_clear(self) ==
    Ok(KotMutableSet_reset_if_empty([self EXCEPT !.elements = {}]))

(***************************************************************************)
(* KotMap and KotMutableMap: the entries are the (key, value) pairs in     *)
(* insertion order                                                         *)
(***************************************************************************)
keys(entries) == {entries[i][1] : i \in 1..Len(entries)}

(* the check of one side of an entry against the type of that side *)
KotMap_check_side(element, expected_type, collection_name) ==
    IF expected_type = None
    THEN Ok(infer_element_type(element, KotMap))
    ELSE LET message == validate_element(element, expected_type,
                                         collection_name)
         IN  IF message = None THEN Ok(expected_type)
             ELSE RaiseTypeError(expected_type, message)

(* KotMap_check_types that checks the value before the key *)
KotMap_check_types_value_first(self, key, value) ==
    LET k == KotMap_check_side(key, self.key_type, <<"KotMap key">>)
        v == KotMap_check_side(value, self.value_type, <<"KotMap value">>)
    IN  IF v.err # "none" THEN RaiseTypeError(self, v.msg)
        ELSE IF k.err # "none" THEN RaiseTypeError(self, k.msg)
        ELSE Ok([self EXCEPT !.key_type = k.self, !.value_type = v.self])

(* the key is checked against the key type, then the value against the    *)
(* value type                                                              *)
KotMap_check_types(self, key, value) ==
    LET k == KotMap_check_side(key, self.key_type, <<"KotMap key">>)
        v == KotMap_check_side(value, self.value_type, <<"KotMap value">>)
    IN  IF k.err # "none" THEN RaiseTypeError(self, k.msg)
        ELSE IF v.err # "none" THEN RaiseTypeError(self, v.msg)
        ELSE Ok([self EXCEPT !.key_type = k.self, !.value_type = v.self])

RECURSIVE KotMap_check_each(_, _)
KotMap_check_each(self, elements) ==
    IF elements = <<>> THEN Ok(self)
    ELSE LET r == KotMap_check_types(self, Head(elements)[1], Head(elements)[2])
         IN  IF r.err # "none" THEN r
             ELSE KotMap_check_each(r.self, Tail(elements))

(* cls(elements) for cls = KotMap or KotMutableMap, elements a dict *)
KotMap__init__(cls, elements) ==
    LET self == [cls |-> cls, entries |-> <<>>,
                 key_type |-> None, value_type |-> None]
        r == KotMap_check_each(self, elements)
    IN  IF r.err # "none" THEN r
        ELSE Ok([r.self EXCEPT !.entries = elements])

(* cls.of_type(key_type, value_type, elements) *)
KotMap_of_type(cls, key_type, value_type, elements) ==
    LET self == [cls |-> << __name__(cls) \o <<"[">> \o __name__(key_type)
                              \o <<",">> \o __name__(value_type) \o <<"]">> >>
                        \o cls,
                 entries |-> <<>>,
                 key_type |-> IF IsType(key_type) THEN key_type ELSE None,
                 value_type |-> IF IsType(value_type) THEN value_type
                                ELSE None]
        r == KotMap_check_each(self, elements)
    IN  IF r.err # "none" THEN r
        ELSE Ok([r.self EXCEPT !.entries = elements])

(* an empty mutable map goes back to no key type and no value type *)
KotMutableMap_reset_if_empty(self) ==
    IF self.entries = <<>>
    THEN [self EXCEPT !.key_type = None, !.value_type = None]
    ELSE self

(* dict[key] = value: a present key keeps its place *)
setitem(entries, key, value) ==
    IF key \in keys(entries)
    THEN [i \in 1..Len(entries) |->
             IF entries[i][1] = key THEN <<key, value>> ELSE entries[i]]
    ELSE Append(entries, <<key, value>>)

(* del dict[key] *)
RECURSIVE delitem(_, _)
delitem(entries, key) ==
    IF entries = <<>> THEN <<>>
    ELSE IF Head(entries)[1] = key THEN Tail(entries)
         ELSE <<Head(entries)>> \o delitem(Tail(entries), key)

KotMutableMap_put(self, key, value) ==
    LET r == KotMap_check_types(self, key, value)
    IN  IF r.err # "none" THEN RaiseTypeError(self, r.msg)
        ELSE Ok([r.self EXCEPT !.entries = setitem(@, key, value)])

KotMutableMap_remove(self, key) ==
    Ok(KotMutableMap_reset_if_empty(
           [self EXCEPT !.entries = delitem(@, key)]))

KotMutableMap_clear(self) ==
    Ok(KotMutableMap_reset_if_empty([self EXCEPT !.entries = <<>>]))

(***************************************************************************)
(* Conversions between container kinds                                     *)
(***************************************************************************)
IsList(self) == issubclass(self.cls, KotList)

(* list(a_set): the elements in some order, here by name *)
RECURSIVE list_of(_)
list_of(S) ==
    IF S = {} THEN <<>>
    ELSE LET e == CHOOSE x \in S : \A y \in S : alphabetical[x] <= alphabetical[y]
         IN  <<e>> \o list_of(S \ {e})

(* the elements of a list or of a set as a list *)
to_list(self) == IF IsList(self) THEN self.elements ELSE list_of(self.elements)

(* a list of class cls with the elements and the element type of self *)
KotList_like(cls, self) ==
    IF self.element_type # None
    THEN TypedKotMutableList__init__(
             __class_getitem__(cls, self.element_type), to_list(self)).self
    ELSE [KotList__init__(to_list(self)).self EXCEPT !.cls = cls]

(* a set of class cls with the elements and the element type of self *)
KotSet_like(cls, self) ==
    IF self.element_type # None
    THEN KotSet_of_type(cls, self.element_type, to_list(self)).self
    ELSE KotSet__init__(cls, to_list(self)).self

(* a map of class cls with the entries and the types of self *)
KotMap_like(cls, self) ==
    IF self.key_type # None /\ self.value_type # None
    THEN KotMap_of_type(cls, self.key_type, self.value_type, self.entries).self
    ELSE KotMap__init__(cls, self.entries).self

to_kot_list(self) == KotList_like(KotList, self)

to_kot_mutable_list(self) == KotList_like(KotMutableList, self)

(* to_kot_set that infers the element type from the elements again *)
to_kot_set_inferred(self) == KotSet__init__(KotSet, to_list(self)).self

to_kot_set(self) == KotSet_like(KotSet, self)

to_kot_mutable_set(self) == KotSet_like(KotMutableSet, self)

to_kot_map(self) == KotMap_like(KotMap, self)

to_kot_mutable_map(self) == KotMap_like(KotMutableMap, self)

(***************************************************************************)
(* The inputs the model draws from                                         *)
(***************************************************************************)
(* The parameters a typed variant is declared with. *)
DeclTypes == {Animal, Dog, KotMutableListOfDog, TypeVarT}

Batches == UNION {[1..n -> Values] : n \in 0..MaxBatch}

Indexes == (0 - 1)..MaxLen

(* remove_all and retain_all arguments: iterables without repetition *)
Iterables == {b \in Batches : \A i, j \in 1..Len(b) : b[i] = b[j] => i = j}

(* remove_if predicates: membership in one of these sets *)
Predicates == {set_of(b) : b \in Batches}

(* replace_all operators: the constant ones, the identity and a rotation *)
rotate ==
    ("animal" :> "dog") @@ ("dog" :> "cat") @@ ("cat" :> "hello")
    @@ ("hello" :> "mlist") @@ ("mlist" :> "animal")

Operators ==
    {[v \in Values |-> y] : y \in Values}
    \cup {[v \in Values |-> v], rotate}

(* sort keys: the depth of the class, the alphabetical rank of the name *)
Keys == {[v \in Values |-> Len(type(v))], alphabetical}

(* The keys of the maps. *)
MapKeys == {"hello", "animal", "dog"}

(* dict literals: pairs with distinct keys *)
Dicts ==
    {d \in UNION {[1..n -> MapKeys \X Values] : n \in 0..MaxBatch} :
        \A i, j \in 1..Len(d) : d[i][1] = d[j][1] => i = j}

(***************************************************************************)
(* Construction of one KotMutableList                                      *)
(***************************************************************************)
(* The second list is not in use. *)
NoSecondList ==
    /\ lst2 = KotMutableList__init__(<<>>).self
    /\ err2 = "none"

NoList == lst = KotMutableList__init__(<<>>).self

NoSet == kset = KotSet__init__(KotMutableSet, <<>>).self

NoMap == kmap = KotMap__init__(KotMutableMap, <<>>).self

NoConversion == col = None /\ origin = None

(* No message, no sub_list view and no iterator are in use. *)
NoViews ==
    msg = None /\ view = None /\ it = None /\ legal = FALSE /\ returned = None

(* A constructor call with the arguments decl and batch.  A constructor    *)
(* that raises yields no object.                                           *)
New(name, r) ==
    /\ op = "start"
    /\ lst' = IF r.err = "none" THEN r.self ELSE lst
    /\ op' = name
    /\ err' = r.err
    /\ UNCHANGED <<subject, decl, batch, lst2, err2, kset, kmap, col, origin,
                 msg, view, it, legal, returned>>

(* KotMutableList(batch) *)
Construct ==
    /\ subject = "list"
    /\ decl = None
    /\ New("__init__", KotMutableList__init__(batch))

(* KotMutableList[decl](batch) *)
ConstructTyped ==
    /\ subject = "list"
    /\ decl # None
    /\ New("__class_getitem__",
           TypedKotMutableList__init__(
               __class_getitem__(KotMutableList, decl), batch))

(* KotMutableList.of_type(decl, batch) *)
ConstructOfType ==
    /\ subject = "list"
    /\ decl # None
    /\ New("of_type", of_type(KotMutableList, decl, batch))

ConstructorOps == {"__init__", "__class_getitem__", "of_type"}

(* A constructor has returned an object. *)
Built == op # "start" /\ ~(op \in ConstructorOps /\ err # "none")

(* KotMutableSet(batch) *)
ConstructSet ==
    /\ subject = "set"
    /\ op = "start"
    /\ LET r == KotSet__init__(KotMutableSet, batch)
       IN  /\ kset' = IF r.err = "none" THEN r.self ELSE kset
           /\ op' = "__init__"
           /\ err' = r.err
    /\ UNCHANGED <<subject, decl, batch, lst, lst2, err2, kmap, col, origin,
                 msg, view, it, legal, returned>>

(* KotMutableMap(batch) *)
ConstructMap ==
    /\ subject = "map"
    /\ op = "start"
    /\ LET r == KotMap__init__(KotMutableMap, batch)
       IN  /\ kmap' = IF r.err = "none" THEN r.self ELSE kmap
           /\ op' = "__init__"
           /\ err' = r.err
    /\ UNCHANGED <<subject, decl, batch, lst, lst2, err2, kset, col, origin,
                 msg, view, it, legal, returned>>

(* The insertions into the list just built. *)
FirstAdd ==
    /\ subject = "list"
    /\ Built
    /\ size(lst) < MaxLen
    /\ \E v \in Values :
          LET r == add(lst, v)
          IN  /\ lst' = r.self
              /\ op' = "add"
              /\ err' = r.err
              /\ UNCHANGED <<subject, decl, batch, lst2, err2, kset, kmap, col, origin,
                 msg, view, it, legal, returned>>

(* The arguments of the constructor call to come. *)
InitNew ==
    /\ subject \in {"list", "set", "map"}
    /\ decl \in IF subject = "list" THEN DeclTypes \cup {None} ELSE {None}
    /\ batch \in IF subject = "map" THEN Dicts ELSE Batches
    /\ op = "start"
    /\ err = "none"
    /\ NoList
    /\ NoSecondList
    /\ NoViews
    /\ NoSet
    /\ NoMap
    /\ NoConversion

NextNew ==
    \/ Construct
    \/ ConstructTyped
    \/ ConstructOfType
    \/ ConstructSet
    \/ ConstructMap
    \/ FirstAdd

(* A constructor call and the insertions that follow it. *)
SpecNew == InitNew /\ [][NextNew]_vars

(***************************************************************************)
(* One KotMutableList under a sequence of calls                            *)
(***************************************************************************)
(* A call on the list: its effect, and the exception it raised if any. *)
Call(name, r) ==
    /\ lst' = r.self
    /\ op' = name
    /\ err' = r.err
    /\ UNCHANGED <<subject, decl, batch, lst2, err2, kset, kmap, col, origin,
                 msg, view, it, legal, returned>>

(* Any list a constructor returns. *)
Init ==
    /\ decl \in DeclTypes \cup {None}
    /\ batch = <<>>
    /\ \E b \in Batches :
          LET r == IF decl = None THEN KotMutableList__init__(b)
                   ELSE of_type(KotMutableList, decl, b)
          IN  /\ r.err = "none"
              /\ lst = r.self
    /\ op = "__init__"
    /\ err = "none"
    /\ subject = "list"
    /\ NoSecondList
    /\ NoViews
    /\ NoSet
    /\ NoMap
    /\ NoConversion

Add ==
    /\ size(lst) < MaxLen
    /\ \E v \in Values : Call("add", add(lst, v))

AddAt ==
    /\ size(lst) < MaxLen
    /\ \E i \in Indexes, v \in Values : Call("add_at", add_at(lst, i, v))

AddAll ==
    \E b \in Batches :
        /\ size(lst) + Len(b) <= MaxLen
        /\ Call("add_all", add_all(lst, b))

AddAllAt ==
    \E i \in Indexes, b \in Batches :
        /\ size(lst) + Len(b) <= MaxLen
        /\ Call("add_all_at", add_all_at(lst, i, b))

Set == \E i \in Indexes, v \in Values : Call("set", set(lst, i, v))

RemoveAt == \E i \in Indexes : Call("remove_at", remove_at(lst, i))

Remove == \E v \in Values : Call("remove", remove(lst, v))

RemoveAll == \E b \in Iterables : Call("remove_all", remove_all(lst, b))

RemoveFirst == Call("remove_first", remove_first(lst))

RemoveLast == Call("remove_last", remove_last(lst))

RetainAll == \E b \in Iterables : Call("retain_all", retain_all(lst, b))

RemoveIf == \E S \in Predicates : Call("remove_if", remove_if(lst, S))

ReplaceAll == \E f \in Operators : Call("replace_all", replace_all(lst, f))

Clear == Call("clear", clear(lst))

Sort == \E k \in Keys : Call("sort", sort(lst, k))

Reverse == Call("reverse", reverse(lst))

Fill == \E v \in Values : Call("fill", fill(lst, v))

Next ==
    \/ Add
    \/ AddAt
    \/ AddAll
    \/ AddAllAt
    \/ Set
    \/ RemoveAt
    \/ Remove
    \/ RemoveAll
    \/ RemoveFirst
    \/ RemoveLast
    \/ RetainAll
    \/ RemoveIf
    \/ ReplaceAll
    \/ Clear
    \/ Sort
    \/ Reverse
    \/ Fill

Spec == Init /\ [][Next]_vars

(***************************************************************************)
(* of_type and the bracket syntax side by side                             *)
(***************************************************************************)
(* The same call made on both lists. *)
Both(name, r, r2) ==
    /\ lst' = r.self
    /\ err' = r.err
    /\ lst2' = r2.self
    /\ err2' = r2.err
    /\ op' = name
    /\ UNCHANGED <<subject, decl, batch, kset, kmap, col, origin,
                 msg, view, it, legal, returned>>

(* KotMutableList.of_type(t) and KotMutableList[t]() *)
InitEq ==
    /\ decl \in DeclTypes
    /\ batch = <<>>
    /\ lst = of_type(KotMutableList, decl, batch).self
    /\ lst2 = TypedKotMutableList__init__(
                  __class_getitem__(KotMutableList, decl), batch).self
    /\ op = "of_type"
    /\ err = "none"
    /\ err2 = "none"
    /\ subject = "list"
    /\ NoViews
    /\ NoSet
    /\ NoMap
    /\ NoConversion

(* KotMutableList.of_type(t, b) and KotMutableList[t](b) *)
EqConstruct ==
    \E b \in Batches :
        LET r == of_type(KotMutableList, decl, b)
            r2 == TypedKotMutableList__init__(
                      __class_getitem__(KotMutableList, decl), b)
        IN  Both("of_type",
                 IF r.err = "none" THEN r ELSE Raise(lst, r.err),
                 IF r2.err = "none" THEN r2 ELSE Raise(lst2, r2.err))

EqAdd ==
    /\ size(lst) < MaxLen
    /\ \E v \in Values : Both("add", add(lst, v), add(lst2, v))

EqAddAt ==
    /\ size(lst) < MaxLen
    /\ \E i \in Indexes, v \in Values :
          Both("add_at", add_at(lst, i, v), add_at(lst2, i, v))

EqAddAll ==
    \E b \in Batches :
        /\ size(lst) + Len(b) <= MaxLen
        /\ Both("add_all", add_all(lst, b), add_all(lst2, b))

EqAddAllAt ==
    \E i \in Indexes, b \in Batches :
        /\ size(lst) + Len(b) <= MaxLen
        /\ Both("add_all_at", add_all_at(lst, i, b), add_all_at(lst2, i, b))

EqSet ==
    \E i \in Indexes, v \in Values :
        Both("set", set(lst, i, v), set(lst2, i, v))

NextEq ==
    \/ EqConstruct
    \/ EqAdd
    \/ EqAddAt
    \/ EqAddAll
    \/ EqAddAllAt
    \/ EqSet

SpecEq == InitEq /\ [][NextEq]_vars

(***************************************************************************)
(* One KotMutableSet or one KotMutableMap under a sequence of calls        *)
(***************************************************************************)
SetCall(name, r) ==
    /\ subject = "set"
    /\ kset' = r.self
    /\ op' = name
    /\ err' = r.err
    /\ UNCHANGED <<subject, decl, batch, lst, lst2, err2, kmap, col, origin,
                 msg, view, it, legal, returned>>

MapCall(name, r) ==
    /\ subject = "map"
    /\ kmap' = r.self
    /\ op' = name
    /\ err' = r.err
    /\ msg' = IF r.err = "TypeError" THEN r.msg ELSE None
    /\ UNCHANGED <<subject, decl, batch, lst, lst2, err2, kset, col, origin,
                   view, it, legal, returned>>

(* Any non-empty set or map a constructor returns. *)
InitSetMap ==
    /\ subject \in {"set", "map"}
    /\ decl = None
    /\ batch = <<>>
    /\ IF subject = "set"
       THEN /\ \E b \in Batches \ {<<>>} :
                  LET r == KotSet__init__(KotMutableSet, b)
                  IN  r.err = "none" /\ kset = r.self
            /\ NoMap
       ELSE /\ \E d \in Dicts \ {<<>>} :
                  LET r == KotMap__init__(KotMutableMap, d)
                  IN  r.err = "none" /\ kmap = r.self
            /\ NoSet
    /\ op = "__init__"
    /\ err = "none"
    /\ NoList
    /\ NoSecondList
    /\ NoViews
    /\ NoConversion

SetAdd == \E v \in Values : SetCall("add", KotMutableSet_add(kset, v))

SetAddAll ==
    \E b \in Batches : SetCall("add_all", KotMutableSet_add_all(kset, b))

SetRemove == \E v \in Values : SetCall("remove", KotMutableSet_remove(kset, v))

SetRemoveAll ==
    \E b \in Iterables : SetCall("remove_all", KotMutableSet_remove_all(kset, b))

SetRetainAll ==
    \E b \in Iterables : SetCall("retain_all", KotMutableSet_retain_all(kset, b))

SetClear == SetCall("clear", KotMutableSet_clear(kset))

MapPut ==
    \E k \in MapKeys, v \in Values :
        MapCall("put", KotMutableMap_put(kmap, k, v))

MapRemove == \E k \in MapKeys : MapCall("remove", KotMutableMap_remove(kmap, k))

MapClear == MapCall("clear", KotMutableMap_clear(kmap))

NextSetMap ==
    \/ SetAdd
    \/ SetAddAll
    \/ SetRemove
    \/ SetRemoveAll
    \/ SetRetainAll
    \/ SetClear
    \/ MapPut
    \/ MapRemove
    \/ MapClear

SpecSetMap == InitSetMap /\ [][NextSetMap]_vars

(***************************************************************************)
(* Chains of conversions from one container                                *)
(***************************************************************************)
(* The classes of the containers a chain starts from. *)
ListClasses == {KotList, KotMutableList}

SetClasses == {KotSet, KotMutableSet}

MapClasses == {KotMap, KotMutableMap}

(* The containers a constructor returns: plain ones and typed variants. *)
Origins ==
    IF subject = "list"
    THEN {[KotMutableList__init__(b).self EXCEPT !.cls = c] :
              b \in {x \in Batches : KotMutableList__init__(x).err = "none"},
              c \in ListClasses}
         \cup {of_type(c, t, b).self :
                   <<t, b>> \in {x \in DeclTypes \X Batches :
                                   of_type(KotList, x[1], x[2]).err = "none"},
                   c \in ListClasses}
    ELSE IF subject = "set"
    THEN {KotSet__init__(c, b).self :
              b \in {x \in Batches : KotSet__init__(KotSet, x).err = "none"},
              c \in SetClasses}
         \cup {KotSet_of_type(c, t, b).self :
                   <<t, b>> \in {x \in DeclTypes \X Batches :
                                   KotSet_of_type(KotSet, x[1], x[2]).err
                                       = "none"},
                   c \in SetClasses}
    ELSE {KotMap__init__(c, d).self :
              d \in {x \in Dicts : KotMap__init__(KotMap, x).err = "none"},
              c \in MapClasses}
         \cup {KotMap_of_type(c, t[1], t[2], d).self :
                   <<t, d>> \in {x \in ({Str, Animal} \X {Animal, Dog}) \X Dicts :
                                   KotMap_of_type(KotMap, x[1][1], x[1][2],
                                                  x[2]).err = "none"},
                   c \in MapClasses}

InitConv ==
    /\ subject \in {"list", "set", "map"}
    /\ origin \in Origins
    /\ col = origin
    /\ decl = None
    /\ batch = <<>>
    /\ op = "__init__"
    /\ err = "none"
    /\ NoList
    /\ NoSecondList
    /\ NoViews
    /\ NoSet
    /\ NoMap

Convert(name, r) ==
    /\ col' = r
    /\ op' = name
    /\ err' = "none"
    /\ UNCHANGED <<subject, decl, batch, lst, lst2, err2, kset, kmap, origin,
                 msg, view, it, legal, returned>>

ToKotList ==
    /\ subject \in {"list", "set"}
    /\ Convert("to_kot_list", to_kot_list(col))

ToKotMutableList ==
    /\ subject \in {"list", "set"}
    /\ Convert("to_kot_mutable_list", to_kot_mutable_list(col))

ToKotSet ==
    /\ subject \in {"list", "set"}
    /\ Convert("to_kot_set", to_kot_set(col))

ToKotMutableSet ==
    /\ subject \in {"list", "set"}
    /\ Convert("to_kot_mutable_set", to_kot_mutable_set(col))

ToKotMap ==
    /\ subject = "map"
    /\ Convert("to_kot_map", to_kot_map(col))

ToKotMutableMap ==
    /\ subject = "map"
    /\ Convert("to_kot_mutable_map", to_kot_mutable_map(col))

NextConv ==
    \/ ToKotList
    \/ ToKotMutableList
    \/ ToKotSet
    \/ ToKotMutableSet
    \/ ToKotMap
    \/ ToKotMutableMap

SpecConv == InitConv /\ [][NextConv]_vars

(***************************************************************************)
(* One KotMutableList that may hold containers                             *)
(***************************************************************************)
(* Elements of leaf classes, KotList-kind containers of several classes,   *)
(* a builtin list and an int.                                              *)
NestedValues ==
    {"animal", "dog", "hello", "mlist", "klist", "doglist", "kdoglist",
     "pylist", "one"}

(* KotMutableList[t]() for these t, and KotMutableList() for None. *)
NestedDeclTypes == {None, Dog, KotList, KotListOfDog, KotMutableListOfDog}

(* A call on the list; the message of its TypeError is kept. *)
NestedCall(name, r) ==
    /\ lst' = r.self
    /\ op' = name
    /\ err' = r.err
    /\ msg' = IF r.err = "TypeError" THEN r.msg ELSE None
    /\ UNCHANGED <<subject, decl, batch, lst2, err2, kset, kmap, col, origin,
                   view, it, legal, returned>>

InitNested ==
    /\ subject = "list"
    /\ decl \in NestedDeclTypes
    /\ batch = <<>>
    /\ lst = IF decl = None THEN KotMutableList__init__(batch).self
             ELSE of_type(KotMutableList, decl, batch).self
    /\ op = IF decl = None THEN "__init__" ELSE "of_type"
    /\ err = "none"
    /\ NoSecondList
    /\ NoViews
    /\ NoSet
    /\ NoMap
    /\ NoConversion

NestedAdd ==
    /\ size(lst) < MaxLen
    /\ \E v \in NestedValues : NestedCall("add", add(lst, v))

NestedSet ==
    \E i \in Indexes, v \in NestedValues : NestedCall("set", set(lst, i, v))

NextNested ==
    \/ NestedAdd
    \/ NestedSet

SpecNested == InitNested /\ [][NextNested]_vars

(***************************************************************************)
(* Properties                                                              *)
(***************************************************************************)
(* The typed-variant container classes among the bound types of the model. *)
TypedVariants == {KotMutableListOfDog}

(* The calls that insert or replace elements, and those that remove them. *)
InsertionOps == {"add", "add_at", "add_all", "add_all_at", "set"}

RemovalOps ==
    {"remove", "remove_at", "remove_first", "remove_last", "remove_all",
     "retain_all", "remove_if", "clear"}

(* C1: after any sequence of KotMutableList operations every stored        *)
(* element is valid for the list's bound element type.                     *)
C1_StoredElementsValid ==
    \A i \in 1..size(lst) :
        is_valid_element_type(lst.elements[i], lst.element_type)

(* C2 as stated: into a list bound to A, add of an instance of A or of a   *)
(* subclass of A succeeds, and add of an instance of any other class       *)
(* (strict superclass, sibling, unrelated) raises TypeError.               *)
C2_SubclassOnly ==
    [][\A v \in Values :
          (lst.element_type # None /\ Call("add", add(lst, v)))
          => IF issubclass(type(v), lst.element_type)
             THEN err' = "none" /\ lst'.elements = Append(lst.elements, v)
             ELSE err' = "TypeError"]_vars

(* C2 amended: as C2, except that a list bound to a typed-variant          *)
(* container class also accepts every instance of that variant's base      *)
(* container class; a rejected add leaves the elements as they were.       *)
C2_CovariantAccept ==
    \A v \in Values :
        lst.element_type # None
        => LET r == add(lst, v)
           IN  IF \/ issubclass(type(v), lst.element_type)
                  \/ /\ lst.element_type \in TypedVariants
                     /\ issubclass(type(v), __base__(lst.element_type))
               THEN r.err = "none" /\ r.self.elements = Append(lst.elements, v)
               ELSE r.err = "TypeError" /\ r.self.elements = lst.elements

(* A Dog was added to a list bound to Animal. *)
C2_Witness ==
    /\ op = "add"
    /\ err = "none"
    /\ lst.element_type = Animal
    /\ size(lst) > 1
    /\ lst.elements[size(lst)] = "dog"

(* The container at hand: its size and the type its values are bound to. *)
ContainerSize ==
    CASE subject = "list" -> size(lst)
      [] subject = "set" -> Cardinality(kset.elements)
      [] subject = "map" -> Len(kmap.entries)

ValueType ==
    CASE subject = "list" -> lst.element_type
      [] subject = "set" -> kset.element_type
      [] subject = "map" -> kmap.value_type

(* The class of the i-th value of the initial batch. *)
BatchValueType(i) ==
    type(IF subject = "map" THEN batch[i][2] ELSE batch[i])

StrictSubclass(c, t) == c # t /\ issubclass(c, t)

C4_RejectedInsertionKeepsElements ==
    [][(op' \in InsertionOps /\ err' = "TypeError")
          => lst'.elements = lst.elements]_vars

(* add_all raised TypeError on a list that holds elements. *)
C4_Witness ==
    /\ op = "add_all"
    /\ err = "TypeError"
    /\ size(lst) > 0

(* C5: on an undeclared list, a removal that brings the size to zero       *)
(* resets the bound element type to None.                                  *)
C5_ResetOnEmpty ==
    [][(/\ lst.cls = KotMutableList
        /\ decl = None
        /\ op' \in RemovalOps
        /\ err' = "none"
        /\ size(lst) > 0
        /\ size(lst') = 0)
          => lst'.element_type = None]_vars

(* C6: a removal that empties a mutable set resets its element type, and  *)
(* every add then succeeds; a removal that empties a mutable map resets    *)
(* its key type and its value type, and every put then succeeds.           *)
C6_SetMapResetOnEmpty ==
    [][/\ (/\ subject = "set"
           /\ op' \in RemovalOps
           /\ kset.elements # {}
           /\ kset'.elements = {})
          => /\ kset'.element_type = None
             /\ \A v \in Values : KotMutableSet_add(kset', v).err = "none"
       /\ (/\ subject = "map"
           /\ op' \in RemovalOps
           /\ kmap.entries # <<>>
           /\ kmap'.entries = <<>>)
          => /\ kmap'.key_type = None
             /\ kmap'.value_type = None
             /\ \A k \in MapKeys, v \in Values :
                    KotMutableMap_put(kmap', k, v).err = "none"]_vars

(* The last key of a map was removed and the map has no types. *)
C6_Witness ==
    /\ subject = "map"
    /\ op = "remove"
    /\ err = "none"
    /\ kmap.entries = <<>>
    /\ kmap.key_type = None
    /\ kmap.value_type = None

(* C7: a removal that leaves a mutable set or map non-empty leaves its     *)
(* bound types as they were, and every insertion is accepted or rejected   *)
(* after the removal as it was before.                                     *)
C7_PartialRemovalKeepsConstraint ==
    [][/\ (subject = "set" /\ op' \in RemovalOps /\ kset'.elements # {})
          => /\ kset'.element_type = kset.element_type
             /\ \A v \in Values :
                    KotMutableSet_add(kset', v).err
                        = KotMutableSet_add(kset, v).err
       /\ (subject = "map" /\ op' \in RemovalOps /\ kmap'.entries # <<>>)
          => /\ kmap'.key_type = kmap.key_type
             /\ kmap'.value_type = kmap.value_type
             /\ \A k \in MapKeys, v \in Values :
                    KotMutableMap_put(kmap', k, v).err
                        = KotMutableMap_put(kmap, k, v).err]_vars

(* After remove, a set bound to Animal holds only a Dog. *)
C7_Witness ==
    /\ subject = "set"
    /\ op = "remove"
    /\ kset.elements = {"dog"}
    /\ kset.element_type = Animal

(* The typed-variant class KotMutableList[t]. *)
VariantOf(t) == __class_getitem__(KotMutableList, t).mro

(* C8: a typed variant over a class is bound to that class while empty:    *)
(* its construction validates every element of the initial batch against   *)
(* the declared class, not against the class of the first element, and     *)
(* the first insertion into the empty list is validated against it; a      *)
(* rejected first insertion leaves the list empty.                         *)
C8_TypedVariantBoundWhileEmpty ==
    [][/\ (op = "start" /\ op' \in {"__class_getitem__", "of_type"}
              /\ IsType(decl))
          => /\ (err' = "none")
                   <=> (\A i \in 1..Len(batch) :
                            is_valid_element_type(batch[i], decl))
             /\ err' = "none"
                   => /\ lst'.cls = VariantOf(decl)
                      /\ lst'.element_type = decl
                      /\ lst'.elements = batch
             /\ err' # "none" => err' = "TypeError"
       /\ (Built /\ IsType(decl) /\ size(lst) = 0 /\ op' = "add")
          => /\ lst.element_type = decl
             /\ lst'.element_type = decl
             /\ \/ /\ err' = "none"
                   /\ size(lst') = 1
                   /\ is_valid_element_type(lst'.elements[1], decl)
                \/ /\ err' = "TypeError"
                   /\ size(lst') = 0]_vars

(* KotMutableList[Animal]([dog, cat]) was built and is bound to Animal. *)
C8_Witness ==
    /\ op = "__class_getitem__"
    /\ err = "none"
    /\ lst.cls = VariantOf(Animal)
    /\ lst.elements = <<"dog", "cat">>
    /\ lst.element_type = Animal

(* C9: KotMutableList.of_type(t, elems) and KotMutableList[t](elems) have  *)
(* the same class name KotMutableList[t], the same bound type and the same *)
(* contents, and every insertion succeeds on both or raises on both.       *)
C9_OfTypeSameAsGetitem ==
    /\ __name__(lst.cls)
           = <<"KotMutableList", "[">> \o __name__(decl) \o <<"]">>
    /\ __name__(lst2.cls) = __name__(lst.cls)
    /\ IsType(decl) => lst.element_type = decl
    /\ lst.element_type = lst2.element_type
    /\ lst.elements = lst2.elements
    /\ err = err2

(* Both lists rejected an insertion after both had accepted elements. *)
C9_Witness ==
    /\ op \in InsertionOps
    /\ err = "TypeError"
    /\ err2 = "TypeError"
    /\ size(lst) > 0
    /\ size(lst2) > 0

(* C10: after any chain of conversions the container has the bound type    *)
(* of the container the chain started from (for a map: its key type and    *)
(* its value type).                                                        *)
C10_ConversionsPreserveBoundType ==
    IF subject = "map"
    THEN /\ col.key_type = origin.key_type
         /\ col.value_type = origin.value_type
    ELSE col.element_type = origin.element_type

(* KotMutableList.of_type(Animal, [dog, dog]) went through a set and back  *)
(* to a KotMutableList[Animal].                                            *)
C10_Witness ==
    /\ subject = "list"
    /\ origin = of_type(KotMutableList, Animal, <<"dog", "dog">>).self
    /\ op = "to_kot_mutable_list"
    /\ col.cls = origin.cls
    /\ col.elements = <<"dog">>
    /\ col.element_type = Animal

(* The KotList-kind classes that are bound types of containers: the base   *)
(* kind itself and the typed variants.                                     *)
ContainerKinds == {KotList, KotListOfDog, KotMutableListOfDog}

(* The base container kind a bound container kind stands for. *)
BaseKind(t) == IF t = KotList THEN KotList ELSE __base__(t)

(* C11: into a list bound to a container kind (KotList inferred from a     *)
(* first KotList element, or a typed variant used as the element type)     *)
(* add accepts every instance of the base container kind, whatever its     *)
(* own class or element type, and rejects every other element with         *)
(* TypeError, leaving the elements as they were.                           *)
C11_ContainerKindMatch ==
    \A v \in NestedValues :
        lst.element_type \in ContainerKinds
        => LET r == add(lst, v)
           IN  IF isinstance(v, BaseKind(lst.element_type))
               THEN r.err = "none" /\ r.self.elements = Append(lst.elements, v)
               ELSE r.err = "TypeError" /\ r.self.elements = lst.elements

(* A list declared over KotList[Dog] holds a KotList[Dog] and a plain      *)
(* KotMutableList.                                                         *)
C11_Witness ==
    /\ op = "add"
    /\ err = "none"
    /\ lst.element_type = KotListOfDog
    /\ lst.elements = <<"kdoglist", "mlist">>

(* C12: an undeclared list without elements has no bound type and accepts  *)
(* every first element, which binds the list to the element's class, or    *)
(* to KotList when the element is a KotList-kind container; once bound,    *)
(* an insertion is accepted exactly when the element's class is a          *)
(* subclass of the bound type, and the bound type stays.                   *)
C12_FirstElementBindsType ==
    decl = None
    => \A v \in NestedValues :
          LET r == add(lst, v)
          IN  IF size(lst) = 0
              THEN /\ lst.element_type = None
                   /\ r.err = "none"
                   /\ r.self.elements = <<v>>
                   /\ r.self.element_type
                          = IF issubclass(type(v), KotList) THEN KotList
                            ELSE type(v)
              ELSE /\ lst.element_type # None
                   /\ r.self.element_type = lst.element_type
                   /\ (r.err = "none")
                          <=> issubclass(type(v), lst.element_type)
                   /\ r.err # "none" => r.err = "TypeError"

(* An undeclared list whose first element was a KotMutableList[Dog] is     *)
(* bound to KotList and has taken a plain KotList as well.                 *)
C12_Witness ==
    /\ decl = None
    /\ op = "add"
    /\ err = "none"
    /\ lst.elements = <<"doglist", "klist">>
    /\ lst.element_type = KotList

(* The message format of a rejected insertion. *)
CannotAdd(actual, kind, expected) ==
    <<"Cannot add element of type '">> \o actual \o <<"' to ">> \o kind
        \o <<"[">> \o expected \o <<"]">>

(* The name of the class a list was declared as, without the parameter.   *)
DeclaredKind(self) ==
    IF \E i \in 1..Len(__name__(self.cls)) : __name__(self.cls)[i] = "["
    THEN __name__(__base__(self.cls))
    ELSE __name__(self.cls)

(* C13 as stated: a rejected add raises TypeError with the message         *)
(* "Cannot add element of type '<Actual>' to <Kind>[<Expected>]", <Actual> *)
(* the class name of the element, <Expected> the name of the bound type    *)
(* and <Kind> the kind the list was declared as (KotMutableList for a      *)
(* KotMutableList).                                                        *)
C13_MessageNamesDeclaredKind ==
    \A v \in NestedValues :
        LET r == add(lst, v)
        IN  r.err = "TypeError"
            => r.msg = CannotAdd(__name__(type(v)), DeclaredKind(lst),
                                 __name__(lst.element_type))

(* C13 amended: as C13, with <Kind> the name KotList for every list, a     *)
(* KotMutableList and its typed variants included; the list is left as it  *)
(* was.                                                                    *)
C13_MessageNamesKotList ==
    \A v \in NestedValues :
        LET r == add(lst, v)
        IN  r.err = "TypeError"
            => /\ r.msg = CannotAdd(__name__(type(v)), <<"KotList">>,
                                    __name__(lst.element_type))
               /\ r.self = lst

(* An int was rejected by a KotMutableList[Dog] that holds a Dog. *)
C13_Witness ==
    /\ op = "add"
    /\ err = "TypeError"
    /\ lst.elements = <<"dog">>
    /\ lst.cls = KotMutableListOfDog
    /\ msg = <<"Cannot add element of type '", "int", "' to ", "KotList",
               "[", "Dog", "]">>

(* The message names this constraint of the map. *)
Names(message, constraint) ==
    \E i \in 1..Len(message) : message[i] = constraint

(* C14: put with a key that is invalid for the key type raises TypeError   *)
(* naming the key constraint; put with a valid key and a value that is     *)
(* invalid for the value type raises TypeError naming the value            *)
(* constraint; either way the map is left as it was.                       *)
C14_PutNamesViolatedConstraint ==
    \A k \in MapKeys, v \in Values :
        kmap.entries # <<>>
        => LET r == KotMutableMap_put(kmap, k, v)
               key_ok == issubclass(type(k), kmap.key_type)
               value_ok == issubclass(type(v), kmap.value_type)
           IN  /\ ~key_ok
                     => /\ r.err = "TypeError"
                        /\ Names(r.msg, "KotMap key")
                        /\ ~Names(r.msg, "KotMap value")
                        /\ r.self = kmap
               /\ (key_ok /\ ~value_ok)
                     => /\ r.err = "TypeError"
                        /\ Names(r.msg, "KotMap value")
                        /\ ~Names(r.msg, "KotMap key")
                        /\ r.self = kmap
               /\ (key_ok /\ value_ok) => r.err = "none"

(* A put into a map of Dog values was rejected for its Animal value. *)
C14_Witness ==
    /\ subject = "map"
    /\ op = "put"
    /\ err = "TypeError"
    /\ kmap.entries # <<>>
    /\ kmap.value_type = Dog
    /\ msg = <<"Cannot add element of type '", "Animal", "' to ",
               "KotMap value", "[", "Dog", "]">>

(***************************************************************************)
(* The kotlist package: KotList with exact-type elements                   *)
(***************************************************************************)
(* KotList._check_type of kotlist: the first element binds its exact       *)
(* class, or KotList when it is a KotList; later elements must be of       *)
(* exactly that class, and a KotList only goes into a list of KotList.     *)
kotlist_check_type(self, element) ==
    IF self.element_type = None
    THEN IF isinstance(element, KotList)
         THEN Ok([self EXCEPT !.element_type = KotList])
         ELSE Ok([self EXCEPT !.element_type = type(element)])
    ELSE IF isinstance(element, KotList)
         THEN IF self.element_type # KotList
              THEN Raise(self, "TypeError") ELSE Ok(self)
         ELSE IF type(element) # self.element_type
              THEN Raise(self, "TypeError") ELSE Ok(self)

RECURSIVE kotlist_check_each(_, _)
kotlist_check_each(self, elements_list) ==
    IF elements_list = <<>> THEN Ok(self)
    ELSE LET r == kotlist_check_type(self, Head(elements_list))
         IN  IF r.err # "none" THEN r
             ELSE kotlist_check_each(r.self, Tail(elements_list))

(* KotList.__init__ of kotlist: the type comes from the first element *)
kotlist_KotList__init__(elements) ==
    LET self == [cls |-> KotList, elements |-> <<>>, element_type |-> None]
        r == kotlist_check_each(self, elements)
    IN  IF r.err # "none" THEN r
        ELSE Ok([r.self EXCEPT !.elements = elements])

(* filter that hands the bound type of the source to the result *)
kotlist_filter_keeps_type(self, predicate) ==
    [self EXCEPT !.elements = comprehension(@, predicate, TRUE)]

kotlist_filter(self, predicate) ==
    kotlist_KotList__init__(comprehension(self.elements, predicate, TRUE)).self

kotlist_filter_not(self, predicate) ==
    kotlist_KotList__init__(comprehension(self.elements, predicate, FALSE)).self

(* sorted(elements, key, reverse): stable in both directions *)
kotlist_sorted(self, key, descending) ==
    kotlist_KotList__init__(
        IF descending THEN reversed(sorted(reversed(self.elements), key))
        ELSE sorted(self.elements, key)).self

kotlist_reversed(self) == kotlist_KotList__init__(reversed(self.elements)).self

(* the first occurrence of every element, in order *)
RECURSIVE distinct_of(_, _)
distinct_of(xs, seen) ==
    IF xs = <<>> THEN <<>>
    ELSE IF Head(xs) \in seen THEN distinct_of(Tail(xs), seen)
         ELSE <<Head(xs)>> \o distinct_of(Tail(xs), seen \cup {Head(xs)})

kotlist_distinct(self) == kotlist_KotList__init__(distinct_of(self.elements, {})).self

(* Elements of leaf classes and KotLists of two classes. *)
KotlistValues == {"animal", "dog", "hello", "mlist", "klist"}

(* The lists KotList(elements) that the constructor accepts. *)
KotlistSources ==
    {kotlist_KotList__init__(b).self :
        b \in {x \in UNION {[1..n -> KotlistValues] : n \in 0..MaxLen} :
                 kotlist_KotList__init__(x).err = "none"}}

(* filter predicates: membership in one of these sets *)
KotlistPredicates == SUBSET {"dog", "mlist", "klist"}

(* sort keys: the alphabetical rank of the name, the depth of the class *)
KotlistKeys ==
    {alphabetical @@ ("klist" :> 6), [v \in KotlistValues |-> Len(type(v))]}

InitKotlist ==
    /\ subject = "kotlist"
    /\ origin \in KotlistSources
    /\ col = origin
    /\ decl = None
    /\ batch = <<>>
    /\ op = "__init__"
    /\ err = "none"
    /\ NoList
    /\ NoSecondList
    /\ NoSet
    /\ NoMap
    /\ NoViews

(* A call on the source list that returns a new list. *)
Derive(name, r) ==
    /\ col' = r
    /\ op' = name
    /\ UNCHANGED <<subject, decl, batch, lst, err, lst2, err2, kset, kmap,
                   origin, msg, view, it, legal, returned>>

KotlistFilter ==
    \E predicate \in KotlistPredicates :
        Derive("filter", kotlist_filter(origin, predicate))

KotlistFilterNot ==
    \E predicate \in KotlistPredicates :
        Derive("filter_not", kotlist_filter_not(origin, predicate))

KotlistSorted ==
    \E key \in KotlistKeys, descending \in BOOLEAN :
        Derive("sorted", kotlist_sorted(origin, key, descending))

KotlistReversed == Derive("reversed", kotlist_reversed(origin))

KotlistDistinct == Derive("distinct", kotlist_distinct(origin))

NextKotlist ==
    \/ KotlistFilter
    \/ KotlistFilterNot
    \/ KotlistSorted
    \/ KotlistReversed
    \/ KotlistDistinct

SpecKotlist == InitKotlist /\ [][NextKotlist]_vars

C15_EmptyResult ==
    /\ op = "filter"
    /\ origin.element_type = Dog
    /\ col.elements = <<>>

(***************************************************************************)
(* KotMutableSubList: the view returned by KotMutableList.sub_list         *)
(***************************************************************************)
(* xs[k] of a builtin list: a negative k counts from the end *)
list__getitem__(xs, k) ==
    LET j == IF k < 0 THEN k + Len(xs) ELSE k
    IN  IF j < 0 \/ j >= Len(xs) THEN Raise(None, "IndexError")
        ELSE Ok(xs[j + 1])

(* xs[k] = value of a builtin list *)
list__setitem__(xs, k, value) ==
    LET j == IF k < 0 THEN k + Len(xs) ELSE k
    IN  IF j < 0 \/ j >= Len(xs) THEN Raise(xs, "IndexError")
        ELSE Ok([xs EXCEPT ![j + 1] = value])

(* xs.insert(k, e) of a builtin list for k >= 0: k beyond the end appends *)
list_insert(xs, k, e) ==
    insert(xs, IF k > Len(xs) THEN Len(xs) ELSE k, <<e>>)

(* xs.pop(k) and del xs[k] of a builtin list for k >= 0 *)
list_pop(xs, k) ==
    IF k >= Len(xs) THEN Raise(xs, "IndexError") ELSE Ok(pop(xs, k))

(* xs[lo:hi] of Python for 0 <= lo: the bounds are clamped to the list *)
slice(xs, lo, hi) ==
    LET top == IF hi < Len(xs) THEN hi ELSE Len(xs)
    IN  IF lo >= top THEN <<>> ELSE SubSeq(xs, lo + 1, top)

(* xs[lo:hi] = value *)
slice_assign(xs, lo, hi, value) ==
    slice(xs, 0, lo) \o value \o slice(xs, IF hi < lo THEN lo ELSE hi, Len(xs))

(* The view object: its parent, _start and _end. *)
sub_list(self, from_index, to_index) ==
    IF from_index < 0 \/ to_index > size(self) THEN Raise(None, "IndexError")
    ELSE IF from_index > to_index THEN Raise(None, "IndexError")
    ELSE Ok([parent |-> self, start |-> from_index, end |-> to_index])

(* the _elements property: a new list cut out of the parent on every read *)
KotMutableSubList_elements(self) ==
    slice(self.parent.elements, self.start, self.end)

(* the _elements setter *)
KotMutableSubList_elements_setter(self, value) ==
    [self EXCEPT !.parent.elements = slice_assign(@, self.start, self.end, value),
                 !.end = self.start + Len(value)]

KotMutableSubList_size(self) == self.end - self.start

KotMutableSubList__getitem__(self, index) ==
    IF ~(0 <= index /\ index < KotMutableSubList_size(self))
    THEN Raise(None, "IndexError")
    ELSE list__getitem__(self.parent.elements, self.start + index)

(* _check_type of the view delegates to the parent, which may bind its type *)
KotMutableSubList_check_type(self, element) ==
    LET r == _check_type(self.parent, element)
    IN  [self |-> [self EXCEPT !.parent = r.self], err |-> r.err]

KotMutableSubList__setitem__(self, index, value) ==
    IF ~(0 <= index /\ index < KotMutableSubList_size(self))
    THEN Raise(self, "IndexError")
    ELSE LET r == KotMutableSubList_check_type(self, value)
             w == list__setitem__(r.self.parent.elements,
                                  self.start + index, value)
         IN  IF r.err # "none" THEN Raise(self, r.err)
             ELSE [self |-> [r.self EXCEPT !.parent.elements = w.self],
                   err |-> w.err]

KotMutableSubList__delitem__(self, index) ==
    IF ~(0 <= index /\ index < KotMutableSubList_size(self))
    THEN Raise(self, "IndexError")
    ELSE LET w == list_pop(self.parent.elements, self.start + index)
         IN  IF w.err # "none" THEN Raise(self, w.err)
             ELSE Ok([self EXCEPT !.parent.elements = w.self,
                                  !.end = @ - 1])

KotMutableSubList_add(self, element) ==
    LET r == KotMutableSubList_check_type(self, element)
    IN  IF r.err # "none" THEN Raise(self, r.err)
        ELSE Ok([r.self EXCEPT !.parent.elements = list_insert(@, self.end, element),
                               !.end = @ + 1])

KotMutableSubList_add_at(self, index, element) ==
    IF ~(0 <= index /\ index <= KotMutableSubList_size(self))
    THEN Raise(self, "IndexError")
    ELSE LET r == KotMutableSubList_check_type(self, element)
         IN  IF r.err # "none" THEN Raise(self, r.err)
             ELSE Ok([r.self EXCEPT
                        !.parent.elements = list_insert(@, self.start + index,
                                                    element),
                        !.end = @ + 1])

KotMutableSubList_set(self, index, element) ==
    IF ~(0 <= index /\ index < KotMutableSubList_size(self))
    THEN Raise(self, "IndexError")
    ELSE LET r == KotMutableSubList_check_type(self, element)
             w == list__setitem__(r.self.parent.elements,
                                  self.start + index, element)
         IN  IF r.err # "none" THEN Raise(self, r.err)
             ELSE [self |-> [r.self EXCEPT !.parent.elements = w.self],
                   err |-> w.err]

KotMutableSubList_remove_at(self, index) ==
    IF ~(0 <= index /\ index < KotMutableSubList_size(self))
    THEN Raise(self, "IndexError")
    ELSE LET w == list_pop(self.parent.elements, self.start + index)
         IN  IF w.err # "none" THEN Raise(self, w.err)
             ELSE Ok([self EXCEPT !.parent.elements = w.self,
                                  !.end = @ - 1])

KotMutableSubList_clear(self) ==
    Ok([self EXCEPT
          !.parent.elements = slice_assign(@, self.start, self.end, <<>>),
          !.end = self.start])

(* The mutators the view inherits from KotMutableList.  Those that change  *)
(* self._elements in place change the list the property has just cut out   *)
(* of the parent; those that assign self._elements go through the setter.  *)
RECURSIVE KotMutableSubList_check_each(_, _)
KotMutableSubList_check_each(self, elements_list) ==
    IF elements_list = <<>> THEN Ok(self)
    ELSE LET r == KotMutableSubList_check_type(self, Head(elements_list))
         IN  IF r.err # "none" THEN r
             ELSE KotMutableSubList_check_each(r.self, Tail(elements_list))

(* add_all: self._elements.extend(elements_list) *)
KotMutableSubList_add_all(self, elements) ==
    LET r == KotMutableSubList_check_each(self, elements)
    IN  IF r.err # "none" THEN Raise(self, r.err) ELSE Ok(r.self)

(* remove: self._elements.remove(element) *)
KotMutableSubList_remove(self, element) == Ok(self)

(* remove_all: self._elements = [e for e in self._elements if e not in s] *)
KotMutableSubList_remove_all(self, elements) ==
    Ok(KotMutableSubList_elements_setter(
           self,
           comprehension(KotMutableSubList_elements(self), set_of(elements),
                         FALSE)))

(* remove_first: self._elements.pop(0) *)
KotMutableSubList_remove_first(self) ==
    IF KotMutableSubList_size(self) = 0 THEN Raise(self, "IndexError")
    ELSE Ok(self)

(* sort: self._elements.sort(key=key) *)
KotMutableSubList_sort(self, key) == Ok(self)

(* reverse: self._elements.reverse() *)
KotMutableSubList_reverse(self) == Ok(self)

(* fill: self._elements[i] = value for every i *)
KotMutableSubList_fill(self, value) == Ok(self)

(* The elements of the parents and the arguments of the calls. *)
ViewValues == {"animal", "dog", "hello"}

ViewBatches == UNION {[1..n -> ViewValues] : n \in 1..MaxBatch}

(* The parent, and the view of it that the variable view describes. *)
TheView == [parent |-> lst, start |-> view.start, end |-> view.end]

InitView ==
    /\ subject = "view"
    /\ decl = None
    /\ batch = <<>>
    /\ \E b \in UNION {[1..n -> ViewValues] : n \in 0..MaxLen} :
         /\ KotMutableList__init__(b).err = "none"
         /\ lst = KotMutableList__init__(b).self
    /\ \E from_index, to_index \in 0..MaxLen :
         /\ sub_list(lst, from_index, to_index).err = "none"
         /\ view = [start |-> from_index, end |-> to_index]
    /\ op = "sub_list"
    /\ err = "none"
    /\ msg = None
    /\ it = None
    /\ legal = FALSE
    /\ returned = None
    /\ NoSecondList
    /\ NoSet
    /\ NoMap
    /\ NoConversion

(* A call on the view. *)
ViewCall(name, r) ==
    /\ lst' = r.self.parent
    /\ view' = [start |-> r.self.start, end |-> r.self.end]
    /\ op' = name
    /\ err' = r.err
    /\ UNCHANGED <<subject, decl, batch, lst2, err2, kset, kmap, col, origin,
                   msg, it, legal, returned>>

ViewSetitem ==
    \E index \in Indexes, value \in ViewValues :
        ViewCall("__setitem__", KotMutableSubList__setitem__(TheView, index, value))

ViewDelitem ==
    \E index \in Indexes :
        ViewCall("__delitem__", KotMutableSubList__delitem__(TheView, index))

ViewAdd ==
    /\ size(lst) < MaxLen
    /\ \E element \in ViewValues :
         ViewCall("add", KotMutableSubList_add(TheView, element))

ViewAddAt ==
    /\ size(lst) < MaxLen
    /\ \E index \in Indexes, element \in ViewValues :
         ViewCall("add_at", KotMutableSubList_add_at(TheView, index, element))

ViewSet ==
    \E index \in Indexes, element \in ViewValues :
        ViewCall("set", KotMutableSubList_set(TheView, index, element))

ViewRemoveAt ==
    \E index \in Indexes :
        ViewCall("remove_at", KotMutableSubList_remove_at(TheView, index))

ViewClear == ViewCall("clear", KotMutableSubList_clear(TheView))

ViewAddAll ==
    /\ size(lst) + MaxBatch <= MaxLen
    /\ \E elements \in ViewBatches :
         ViewCall("add_all", KotMutableSubList_add_all(TheView, elements))

ViewRemove ==
    \E element \in ViewValues :
        ViewCall("remove", KotMutableSubList_remove(TheView, element))

ViewRemoveAll ==
    \E elements \in ViewBatches :
        ViewCall("remove_all", KotMutableSubList_remove_all(TheView, elements))

ViewRemoveFirst ==
    ViewCall("remove_first", KotMutableSubList_remove_first(TheView))

ViewSort ==
    \E key \in Keys : ViewCall("sort", KotMutableSubList_sort(TheView, key))

ViewReverse == ViewCall("reverse", KotMutableSubList_reverse(TheView))

ViewFill ==
    \E value \in ViewValues :
        ViewCall("fill", KotMutableSubList_fill(TheView, value))

(* parent.set(index, element) at an index inside the window of the view *)
ParentSet ==
    \E index \in Indexes, element \in ViewValues :
        /\ view.start <= index
        /\ index < view.end
        /\ lst' = set(lst, index, element).self
        /\ op' = "parent.set"
        /\ err' = set(lst, index, element).err
        /\ UNCHANGED <<subject, decl, batch, lst2, err2, kset, kmap, col,
                       origin, msg, view, it, legal, returned>>

NextView ==
    \/ ViewSetitem
    \/ ViewDelitem
    \/ ViewAdd
    \/ ViewAddAt
    \/ ViewSet
    \/ ViewRemoveAt
    \/ ViewClear
    \/ ViewAddAll
    \/ ViewRemove
    \/ ViewRemoveAll
    \/ ViewRemoveFirst
    \/ ViewSort
    \/ ViewReverse
    \/ ViewFill
    \/ ParentSet

SpecView == InitView /\ [][NextView]_vars

(* A KotMutableList of its own with the elements and the bound type of     *)
(* the view.                                                               *)
Standalone(self) ==
    [cls |-> KotMutableList, element_type |-> self.parent.element_type,
     elements |-> KotMutableSubList_elements(self)]

(* The call on the view did what the same call does on a list of its own,  *)
(* and the parent holds the new elements of the view in its window and     *)
(* its old elements around it.                                             *)
Reflected(self, r, e) ==
    /\ r.err = e.err
    /\ KotMutableSubList_elements(r.self) = e.self.elements
    /\ KotMutableSubList_size(r.self) = Len(e.self.elements)
    /\ r.self.start = self.start
    /\ r.self.parent.elements =
         slice(self.parent.elements, 0, self.start)
         \o e.self.elements
         \o slice(self.parent.elements, self.end, Len(self.parent.elements))

(* The mutators that the view overrides, and remove_all, are reflected in  *)
(* the parent.                                                             *)
OverriddenMutationsReflected ==
    LET self == TheView
        alone == Standalone(TheView)
    IN  /\ \A index \in Indexes, element \in ViewValues :
             /\ Reflected(self, KotMutableSubList_set(self, index, element),
                          set(alone, index, element))
             /\ Reflected(self, KotMutableSubList__setitem__(self, index, element),
                          set(alone, index, element))
             /\ Reflected(self, KotMutableSubList_add_at(self, index, element),
                          add_at(alone, index, element))
        /\ \A element \in ViewValues :
             Reflected(self, KotMutableSubList_add(self, element),
                       add(alone, element))
        /\ \A index \in Indexes :
             /\ Reflected(self, KotMutableSubList_remove_at(self, index),
                          remove_at(alone, index))
             /\ Reflected(self, KotMutableSubList__delitem__(self, index),
                          remove_at(alone, index))
        /\ Reflected(self, KotMutableSubList_clear(self), clear(alone))
        /\ \A elements \in ViewBatches :
             Reflected(self, KotMutableSubList_remove_all(self, elements),
                       remove_all(alone, elements))

(* The mutators that the view inherits and that change _elements in place  *)
(* are reflected in the parent.                                            *)
InheritedMutationsReflected ==
    LET self == TheView
        alone == Standalone(TheView)
    IN  /\ \A elements \in ViewBatches :
             Reflected(self, KotMutableSubList_add_all(self, elements),
                       add_all(alone, elements))
        /\ \A element \in ViewValues :
             /\ Reflected(self, KotMutableSubList_remove(self, element),
                          remove(alone, element))
             /\ Reflected(self, KotMutableSubList_fill(self, element),
                          fill(alone, element))
        /\ Reflected(self, KotMutableSubList_remove_first(self),
                     remove_first(alone))
        /\ \A key \in Keys :
             Reflected(self, KotMutableSubList_sort(self, key), sort(alone, key))
        /\ Reflected(self, KotMutableSubList_reverse(self), reverse(alone))

(* A change of a parent element inside the window shows through the view.  *)
ParentChangeVisible ==
    \A index \in Indexes, element \in ViewValues :
        (view.start <= index /\ index < view.end
         /\ set(lst, index, element).err = "none")
        => KotMutableSubList__getitem__(
               [TheView EXCEPT !.parent = set(lst, index, element).self],
               index - view.start).self = element

(* C16: the list returned by sub_list is a live view of the parent: every  *)
(* mutation made through the view (set, add, add_at, remove_at, clear,     *)
(* view[i] = v, del view[i], add_all, remove, remove_all, remove_first,    *)
(* sort, reverse, fill) does what it does on a list and shows in the       *)
(* parent's window, the rest of the parent is untouched, and a change of   *)
(* a parent element inside the window shows through the view.              *)
C16_SubListIsLiveView ==
    /\ OverriddenMutationsReflected
    /\ InheritedMutationsReflected
    /\ ParentChangeVisible

(* reverse() was called on a view of two different elements, and the view  *)
(* and the parent still hold them in the old order.                        *)
C16_ReverseLost ==
    /\ op = "reverse"
    /\ view = [start |-> 0, end |-> 2]
    /\ lst.elements = <<"animal", "dog">>

(***************************************************************************)
(* KotReversedMutableList: the view returned by KotMutableList.as_reversed *)
(***************************************************************************)
(* the _elements property of the reversed view *)
KotReversedMutableList_elements(original) == reversed(original.elements)

KotReversedMutableList__getitem__(original, index) ==
    list__getitem__(original.elements, size(original) - 1 - index)

(* __setitem__ that writes at the index it is given *)
KotReversedMutableList__setitem__unmirrored(original, index, value) ==
    LET r == list__setitem__(original.elements, index, value)
    IN  [self |-> [original EXCEPT !.elements = r.self], err |-> r.err]

KotReversedMutableList__setitem__(original, index, value) ==
    LET r == list__setitem__(original.elements,
                             size(original) - 1 - index, value)
    IN  [self |-> [original EXCEPT !.elements = r.self], err |-> r.err]

KotReversedMutableList__len__(original) == size(original)

(* Indexes on both sides of the valid ones. *)
ReversedIndexes == (0 - MaxLen - 1)..(2 * MaxLen)

InitReversed ==
    /\ subject = "reversed"
    /\ decl = None
    /\ batch = <<>>
    /\ \E b \in UNION {[1..n -> ViewValues] : n \in 0..MaxLen} :
         /\ KotMutableList__init__(b).err = "none"
         /\ lst = KotMutableList__init__(b).self
    /\ op = "as_reversed"
    /\ err = "none"
    /\ NoViews
    /\ NoSecondList
    /\ NoSet
    /\ NoMap
    /\ NoConversion

(* original[index] = value *)
OriginalSetitem ==
    \E index \in Indexes, value \in ViewValues :
        /\ lst' = set(lst, index, value).self
        /\ op' = "original.__setitem__"
        /\ err' = set(lst, index, value).err
        /\ UNCHANGED <<subject, decl, batch, lst2, err2, kset, kmap, col,
                       origin, msg, view, it, legal, returned>>

(* reversed_view[index] = value *)
ReversedSetitem ==
    \E index \in ReversedIndexes, value \in ViewValues :
        /\ lst' = KotReversedMutableList__setitem__(lst, index, value).self
        /\ op' = "reversed.__setitem__"
        /\ err' = KotReversedMutableList__setitem__(lst, index, value).err
        /\ UNCHANGED <<subject, decl, batch, lst2, err2, kset, kmap, col,
                       origin, msg, view, it, legal, returned>>

NextReversed ==
    \/ OriginalSetitem
    \/ ReversedSetitem

SpecReversed == InitReversed /\ [][NextReversed]_vars

(* C17: for R = L.as_reversed(), in every state reached by index writes    *)
(* on L or on R: len(R) is L.size, R[i] is L[L.size - 1 - i] for every     *)
(* valid i, and R[i] = v sets L[L.size - 1 - i] to v and changes no other  *)
(* position.                                                               *)
C17_ReversedViewMirrorsOriginal ==
    LET n == size(lst)
    IN  /\ KotReversedMutableList__len__(lst) = n
        /\ Len(KotReversedMutableList_elements(lst)) = n
        /\ \A i \in 0..(n - 1) :
             /\ KotReversedMutableList__getitem__(lst, i).err = "none"
             /\ KotReversedMutableList__getitem__(lst, i).self
                  = lst.elements[(n - 1 - i) + 1]
             /\ KotReversedMutableList_elements(lst)[i + 1]
                  = lst.elements[(n - 1 - i) + 1]
        /\ \A i \in 0..(n - 1), v \in ViewValues :
             LET r == KotReversedMutableList__setitem__(lst, i, v)
             IN  /\ r.err = "none"
                 /\ size(r.self) = n
                 /\ \A j \in 0..(n - 1) :
                      r.self.elements[j + 1]
                        = IF j = n - 1 - i THEN v ELSE lst.elements[j + 1]
                 /\ KotReversedMutableList__getitem__(r.self, i).self = v

(* A write through the reversed view changed the first element of a list   *)
(* of three.                                                               *)
C17_Witness ==
    /\ op = "reversed.__setitem__"
    /\ err = "none"
    /\ lst.element_type = Animal
    /\ lst.elements = <<"dog", "animal", "animal">>

(***************************************************************************)
(* MutableListIterator                                                     *)
(***************************************************************************)
(* What a call on the iterator gives: the iterator after the call, the     *)
(* exception raised or "none", and the value returned.                     *)
Return(self, value) == [self |-> self, err |-> "none", result |-> value]

Throw(self, exception) == [self |-> self, err |-> exception, result |-> None]

MutableListIterator__init__(mutable_list, index) ==
    IF index < 0 \/ index > size(mutable_list) THEN Throw(None, "IndexError")
    ELSE Return([list |-> mutable_list, cursor |-> index,
                 last_returned |-> 0 - 1], None)

has_next(self) == self.cursor < size(self.list)

MutableListIterator_next(self) ==
    IF ~has_next(self) THEN Throw(self, "StopIteration")
    ELSE Return([self EXCEPT !.last_returned = self.cursor,
                             !.cursor = self.cursor + 1],
                self.list.elements[self.cursor + 1])

has_previous(self) == self.cursor > 0

(* previous that remembers the cursor it started from *)
MutableListIterator_previous_stale(self) ==
    IF ~has_previous(self) THEN Throw(self, "StopIteration")
    ELSE Return([self EXCEPT !.cursor = self.cursor - 1,
                             !.last_returned = self.cursor],
                self.list.elements[(self.cursor - 1) + 1])

MutableListIterator_previous(self) ==
    IF ~has_previous(self) THEN Throw(self, "StopIteration")
    ELSE Return([self EXCEPT !.cursor = self.cursor - 1,
                             !.last_returned = self.cursor - 1],
                self.list.elements[(self.cursor - 1) + 1])

next_index(self) == self.cursor

previous_index(self) == self.cursor - 1

(* add that puts the element after the one next() would return *)
MutableListIterator_add_after_next(self, element) ==
    LET r == add_at(self.list,
                    IF has_next(self) THEN self.cursor + 1 ELSE self.cursor,
                    element)
    IN  IF r.err # "none" THEN Throw(self, r.err)
        ELSE Return([self EXCEPT !.list = r.self,
                                 !.cursor = self.cursor + 1,
                                 !.last_returned = 0 - 1], None)

(* an exception of add_at leaves the cursor and _last_returned as they were *)
MutableListIterator_add(self, element) ==
    LET r == add_at(self.list, self.cursor, element)
    IN  IF r.err # "none" THEN Throw(self, r.err)
        ELSE Return([self EXCEPT !.list = r.self,
                                 !.cursor = self.cursor + 1,
                                 !.last_returned = 0 - 1], None)

(* remove that keeps _last_returned *)
MutableListIterator_remove_again(self) ==
    IF self.last_returned < 0 THEN Throw(self, "RuntimeError")
    ELSE LET r == remove_at(self.list, self.last_returned)
         IN  IF r.err # "none" THEN Throw(self, r.err)
             ELSE Return([self EXCEPT
                            !.list = r.self,
                            !.cursor = IF self.last_returned < self.cursor
                                       THEN self.cursor - 1 ELSE self.cursor],
                         None)

MutableListIterator_remove(self) ==
    IF self.last_returned < 0 THEN Throw(self, "RuntimeError")
    ELSE LET r == remove_at(self.list, self.last_returned)
         IN  IF r.err # "none" THEN Throw(self, r.err)
             ELSE Return([self EXCEPT
                            !.list = r.self,
                            !.cursor = IF self.last_returned < self.cursor
                                       THEN self.cursor - 1 ELSE self.cursor,
                            !.last_returned = 0 - 1],
                         None)

MutableListIterator_set(self, element) ==
    IF self.last_returned < 0 THEN Throw(self, "RuntimeError")
    ELSE LET r == set(self.list, self.last_returned, element)
         IN  IF r.err # "none" THEN Throw(self, r.err)
             ELSE Return([self EXCEPT !.list = r.self], None)

(* The iterator with the list it walks. *)
TheIterator ==
    [list |-> lst, cursor |-> it.cursor, last_returned |-> it.last_returned]

InitIter ==
    /\ subject = "iterator"
    /\ decl = None
    /\ batch = <<>>
    /\ \E b \in UNION {[1..n -> ViewValues] : n \in 0..MaxBatch} :
         /\ KotMutableList__init__(b).err = "none"
         /\ lst = KotMutableList__init__(b).self
    /\ \E index \in 0..MaxBatch :
         /\ MutableListIterator__init__(lst, index).err = "none"
         /\ it = [cursor |-> index, last_returned |-> 0 - 1]
    /\ op = "list_iterator"
    /\ err = "none"
    /\ legal = FALSE
    /\ returned = [element |-> None, replaced |-> FALSE]
    /\ msg = None
    /\ view = None
    /\ NoSecondList
    /\ NoSet
    /\ NoMap
    /\ NoConversion

(* A call on the iterator.  A next() or previous() that returns makes      *)
(* remove() and set() legal; a remove() or add() that completes ends it;  *)
(* a call that raises and a set() leave it as it was.  The element that    *)
(* next() or previous() returns is kept, and a set() that completes marks  *)
(* it as replaced.                                                         *)
IterCall(name, r) ==
    /\ lst' = r.self.list
    /\ it' = [cursor |-> r.self.cursor, last_returned |-> r.self.last_returned]
    /\ op' = name
    /\ err' = r.err
    /\ legal' = IF r.err # "none" THEN legal
                ELSE IF name \in {"next", "previous"} THEN TRUE
                ELSE IF name \in {"remove", "add"} THEN FALSE
                ELSE legal
    /\ returned' = IF r.err # "none" THEN returned
                   ELSE IF name \in {"next", "previous"}
                        THEN [element |-> r.result, replaced |-> FALSE]
                   ELSE IF name = "set" THEN [returned EXCEPT !.replaced = TRUE]
                   ELSE returned
    /\ UNCHANGED <<subject, decl, batch, lst2, err2, kset, kmap, col, origin,
                   msg, view>>

IterNext == IterCall("next", MutableListIterator_next(TheIterator))

IterPrevious == IterCall("previous", MutableListIterator_previous(TheIterator))

IterAdd ==
    /\ size(lst) < MaxLen
    /\ \E element \in ViewValues :
         IterCall("add", MutableListIterator_add(TheIterator, element))

IterRemove == IterCall("remove", MutableListIterator_remove(TheIterator))

IterSet ==
    \E element \in ViewValues :
        IterCall("set", MutableListIterator_set(TheIterator, element))

NextIter ==
    \/ IterNext
    \/ IterPrevious
    \/ IterAdd
    \/ IterRemove
    \/ IterSet

SpecIter == InitIter /\ [][NextIter]_vars

(* C18: remove() and set() are legal only after a next() or previous()     *)
(* with no remove() or add() in between: otherwise they raise              *)
(* RuntimeError and leave the list and the cursor as they were; when       *)
(* legal they do not raise RuntimeError, and a set() keeps them legal.     *)
C18_RemoveAndSetNeedLastReturned ==
    LET self == TheIterator
        removed == MutableListIterator_remove(self)
    IN  /\ ~legal
           => /\ removed.err = "RuntimeError"
              /\ removed.self = self
              /\ \A element \in ViewValues :
                   /\ MutableListIterator_set(self, element).err = "RuntimeError"
                   /\ MutableListIterator_set(self, element).self = self
        /\ legal
           => /\ removed.err = "none"
              /\ size(removed.self.list) = size(lst) - 1
              /\ MutableListIterator_remove(removed.self).err = "RuntimeError"
              /\ \A element \in ViewValues :
                   LET r == MutableListIterator_set(self, element)
                   IN  /\ r.err # "RuntimeError"
                       /\ r.err = "none"
                          => \A again \in ViewValues :
                               MutableListIterator_set(r.self, again).err
                                 # "RuntimeError"

(* A remove() right after a remove() was refused. *)
C18_Witness ==
    /\ op = "remove"
    /\ err = "RuntimeError"
    /\ ~legal
    /\ it.cursor = 1
    /\ lst.elements = <<"animal">>

(* C19: add(e) inserts e before the element next() would return and after  *)
(* the one previous() would return: after it the list is one longer,       *)
(* next_index() is one more, next() returns what it would have returned    *)
(* without the add, or raises StopIteration as it would have, and          *)
(* previous() returns e.                                                   *)
C19_AddInsertsBeforeNext ==
    \A e \in ViewValues :
        LET self == TheIterator
            r == MutableListIterator_add(self, e)
        IN  r.err = "none"
            => /\ size(r.self.list) = size(lst) + 1
               /\ next_index(r.self) = next_index(self) + 1
               /\ MutableListIterator_next(r.self).err
                    = MutableListIterator_next(self).err
               /\ MutableListIterator_next(r.self).result
                    = MutableListIterator_next(self).result
               /\ MutableListIterator_previous(r.self).err = "none"
               /\ MutableListIterator_previous(r.self).result = e
               /\ has_previous(self)
                  => r.self.list.elements[next_index(r.self) - 1]
                       = MutableListIterator_previous(self).result

(* add("dog") was called between the two elements of a list. *)
C19_Witness ==
    /\ op = "add"
    /\ err = "none"
    /\ it.cursor = 2
    /\ lst.elements = <<"animal", "dog", "animal">>

(***************************************************************************)
(* KotGrouping                                                             *)
(***************************************************************************)
(* The callables handed to KotGrouping, by name.  A dict is the sequence   *)
(* of its <<key, value>> items in insertion order.                         *)
KeySelectors == {"parity", "itself", "constant"}

key_selector_call(key_selector, element) ==
    CASE key_selector = "parity" -> element % 2
      [] key_selector = "itself" -> element
      [] key_selector = "constant" -> 0

(* The pairs of initial_value_selector and operation that go together. *)
Folds ==
    {<<"zero", "plus">>, <<"first", "plus">>, <<"empty", "append">>,
     <<"pair", "append_pair">>}

initial_value_selector_call(initial_value_selector, key, element) ==
    CASE initial_value_selector = "zero" -> 0
      [] initial_value_selector = "first" -> element
      [] initial_value_selector = "empty" -> <<>>
      [] initial_value_selector = "pair" -> <<key, element>>

operation_call(operation, key, accumulator, element) ==
    CASE operation = "plus" -> accumulator + element
      [] operation = "append" -> Append(accumulator, element)
      [] operation = "append_pair" -> accumulator \o <<key, element>>

(* key in groups *)
dict_contains(groups, key) == \E i \in 1..Len(groups) : groups[i][1] = key

(* groups[key].append(element) *)
dict_append(groups, key, element) ==
    [i \in 1..Len(groups) |->
        IF groups[i][1] = key THEN <<key, Append(groups[i][2], element)>>
        ELSE groups[i]]

(* KotGrouping._group_by_key, from the groups made so far *)
RECURSIVE _group_by_key(_, _, _)
_group_by_key(source, key_selector, groups) ==
    IF source = <<>> THEN groups
    ELSE LET element == Head(source)
             key == key_selector_call(key_selector, element)
             known == IF dict_contains(groups, key) THEN groups
                      ELSE Append(groups, <<key, <<>>>>)
         IN  _group_by_key(Tail(source), key_selector,
                           dict_append(known, key, element))

(* for element in elements: accumulator = operation(key, accumulator, element) *)
RECURSIVE fold_elements(_, _, _, _)
fold_elements(operation, key, accumulator, elements) ==
    IF elements = <<>> THEN accumulator
    ELSE fold_elements(operation, key,
                       operation_call(operation, key, accumulator, Head(elements)),
                       Tail(elements))

(* the loop over groups.items() *)
RECURSIVE fold_groups(_, _, _, _)
fold_groups(groups, initial_value_selector, operation, results) ==
    IF groups = <<>> THEN results
    ELSE LET key == Head(groups)[1]
             elements == Head(groups)[2]
         IN  IF elements = <<>>
             THEN fold_groups(Tail(groups), initial_value_selector, operation,
                              results)
             ELSE fold_groups(
                      Tail(groups), initial_value_selector, operation,
                      Append(results,
                             <<key,
                               fold_elements(
                                   operation, key,
                                   initial_value_selector_call(
                                       initial_value_selector, key, elements[1]),
                                   elements)>>))

(* fold that applies the operation from the second element of a group on *)
KotGrouping_fold_from_second(source, key_selector, initial_value_selector, operation) ==
    LET groups == _group_by_key(source, key_selector, <<>>)
    IN  [i \in 1..Len(groups) |->
            <<groups[i][1],
              fold_elements(operation, groups[i][1],
                            initial_value_selector_call(
                                initial_value_selector, groups[i][1],
                                groups[i][2][1]),
                            Tail(groups[i][2]))>>]

(* KotGrouping.fold: the items of the dict handed to KotMap *)
KotGrouping_fold(source, key_selector, initial_value_selector, operation) ==
    fold_groups(_group_by_key(source, key_selector, <<>>),
                initial_value_selector, operation, <<>>)

(* The elements of the sources. *)
Numbers == 1..3

InitFold ==
    /\ subject = "grouping"
    /\ origin \in UNION {[1..n -> Numbers] : n \in 0..MaxLen}
    /\ col = None
    /\ decl = None
    /\ batch = <<>>
    /\ op = "grouping_by"
    /\ err = "none"
    /\ NoList
    /\ NoSecondList
    /\ NoSet
    /\ NoMap
    /\ NoViews

(* KotGrouping(source, key_selector).fold(initial_value_selector, operation) *)
Fold ==
    \E key_selector \in KeySelectors, f \in Folds :
        /\ decl' = <<key_selector, f[1], f[2]>>
        /\ col' = KotGrouping_fold(origin, key_selector, f[1], f[2])
        /\ op' = "fold"
        /\ UNCHANGED <<subject, batch, lst, err, lst2, err2, kset, kmap,
                       origin, msg, view, it, legal, returned>>

NextFold == Fold

SpecFold == InitFold /\ [][NextFold]_vars

(* The elements of the source with this key, in the order of the source. *)
RECURSIVE GroupOf(_, _, _)
GroupOf(source, key_selector, key) ==
    IF source = <<>> THEN <<>>
    ELSE IF key_selector_call(key_selector, Head(source)) = key
         THEN <<Head(source)>> \o GroupOf(Tail(source), key_selector, key)
         ELSE GroupOf(Tail(source), key_selector, key)

(* operation applied to the elements from the left, from this value on. *)
RECURSIVE Aggregate(_, _, _, _)
Aggregate(operation, key, elements, from) ==
    IF elements = <<>> THEN from
    ELSE operation_call(
             operation, key,
             Aggregate(operation, key, SubSeq(elements, 1, Len(elements) - 1),
                       from),
             elements[Len(elements)])

Aggregations == {"log", "sum", "count"}

aggregation_call(operation, key, accumulator, element, first) ==
    CASE operation = "log" ->
             Append(accumulator, <<key, element, first, accumulator = None>>)
      [] operation = "sum" ->
             IF first THEN element ELSE accumulator + element
      [] operation = "count" ->
             IF first THEN 1 ELSE accumulator + 1

(* for i, element in enumerate(elements): the elements from index i on *)
RECURSIVE aggregate_elements(_, _, _, _, _)
aggregate_elements(operation, key, accumulator, elements, i) ==
    IF i >= Len(elements) THEN accumulator
    ELSE LET is_first == (i = 0)
         IN  aggregate_elements(
                 operation, key,
                 aggregation_call(operation, key, accumulator,
                                  elements[i + 1], is_first),
                 elements, i + 1)

(* the loop over groups.items() *)
RECURSIVE aggregate_groups(_, _, _)
aggregate_groups(groups, operation, results) ==
    IF groups = <<>> THEN results
    ELSE LET key == Head(groups)[1]
             elements == Head(groups)[2]
         IN  IF elements = <<>>
             THEN aggregate_groups(Tail(groups), operation, results)
             ELSE aggregate_groups(
                      Tail(groups), operation,
                      Append(results,
                             <<key, aggregate_elements(operation, key, None,
                                                       elements, 0)>>))

(* aggregate that starts every invocation from None with first = True *)
KotGrouping_aggregate_restarting(source, key_selector, operation) ==
    LET groups == _group_by_key(source, key_selector, <<>>)
    IN  [i \in 1..Len(groups) |->
            <<groups[i][1],
              aggregation_call(operation, groups[i][1], None,
                               groups[i][2][Len(groups[i][2])], TRUE)>>]

(* KotGrouping.aggregate: the items of the dict handed to KotMap *)
KotGrouping_aggregate(source, key_selector, operation) ==
    aggregate_groups(_group_by_key(source, key_selector, <<>>), operation, <<>>)

InitAggregate == InitFold

(* KotGrouping(source, key_selector).aggregate(operation) *)
CallAggregate ==
    \E key_selector \in KeySelectors, operation \in Aggregations :
        /\ decl' = <<key_selector, operation>>
        /\ col' = KotGrouping_aggregate(origin, key_selector, operation)
        /\ op' = "aggregate"
        /\ UNCHANGED <<subject, batch, lst, err, lst2, err2, kset, kmap,
                       origin, msg, view, it, legal, returned>>

NextAggregate == CallAggregate

SpecAggregate == InitAggregate /\ [][NextAggregate]_vars

(* The value of a group: the operation applied to the last element with    *)
(* the value of the elements before it, or with None and first = TRUE      *)
(* when there are none before it.                                          *)
RECURSIVE Aggregated(_, _, _)
Aggregated(operation, key, elements) ==
    IF Len(elements) = 1
    THEN aggregation_call(operation, key, None, elements[1], TRUE)
    ELSE aggregation_call(
             operation, key,
             Aggregated(operation, key, SubSeq(elements, 1, Len(elements) - 1)),
             elements[Len(elements)], FALSE)

(* C21: aggregate invokes the operation once per element of the source,    *)
(* in the order of the source within each key; the invocation for the      *)
(* first element of a key gets the accumulator None and first = TRUE,      *)
(* every later one gets the result of the one before and first = FALSE,    *)
(* and the value of the key is the result of its last invocation.          *)
C21_AggregateInvokesOncePerElement ==
    \A key_selector \in KeySelectors :
        LET source_keys == {key_selector_call(key_selector, origin[i]) :
                               i \in 1..Len(origin)}
        IN  /\ \A operation \in Aggregations :
                 LET result == KotGrouping_aggregate(origin, key_selector,
                                                     operation)
                 IN  /\ {result[i][1] : i \in 1..Len(result)} = source_keys
                     /\ Len(result) = Cardinality(source_keys)
                     /\ \A i \in 1..Len(result) :
                          result[i][2]
                            = Aggregated(operation, result[i][1],
                                         GroupOf(origin, key_selector,
                                                 result[i][1]))
            /\ LET logs == KotGrouping_aggregate(origin, key_selector, "log")
               IN  \A i \in 1..Len(logs) :
                     LET key == logs[i][1]
                         group == GroupOf(origin, key_selector, key)
                     IN  logs[i][2]
                           = [n \in 1..Len(group) |->
                                <<key, group[n], n = 1, n = 1>>]

(* The log of an aggregate by parity over 1, 2, 3: two invocations for     *)
(* the odd elements and one for the even one.                              *)
C21_Witness ==
    /\ op = "aggregate"
    /\ origin = <<1, 2, 3>>
    /\ decl = <<"parity", "log">>
    /\ col = << <<1, << <<1, 1, TRUE, TRUE>>, <<1, 3, FALSE, FALSE>> >> >>,
                <<0, << <<0, 2, TRUE, TRUE>> >> >> >>

(***************************************************************************)
(* Index errors, rejected batches and replace_all                          *)
(***************************************************************************)
(* C22: add_at and add_all_at with an index outside 0..size, and set and   *)
(* remove_at with an index outside 0..size-1, raise IndexError and leave   *)
(* the elements and the bound type as they were, whatever the element:     *)
(* the index is checked before the element type, and an empty list         *)
(* without a bound type stays without one.                                 *)
C22_IndexCheckedBeforeType ==
    \A index \in Indexes :
        /\ ~(0 <= index /\ index <= size(lst))
           => /\ \A element \in Values :
                   /\ add_at(lst, index, element).err = "IndexError"
                   /\ add_at(lst, index, element).self = lst
              /\ \A elements \in Batches :
                   /\ add_all_at(lst, index, elements).err = "IndexError"
                   /\ add_all_at(lst, index, elements).self = lst
        /\ ~(0 <= index /\ index < size(lst))
           => /\ \A element \in Values :
                   /\ set(lst, index, element).err = "IndexError"
                   /\ set(lst, index, element).self = lst
              /\ remove_at(lst, index).err = "IndexError"
              /\ remove_at(lst, index).self = lst

(* add_at with an index out of range was refused by an empty list that     *)
(* has no bound type.                                                      *)
C22_Witness ==
    /\ op = "add_at"
    /\ err = "IndexError"
    /\ lst.elements = <<>>
    /\ lst.element_type = None

(* C23: add_all and add_all_at that raise TypeError on an empty list       *)
(* without a bound type leave it empty and without a bound type, so that   *)
(* every following add succeeds.                                           *)
C23_RejectedBatchKeepsUnset ==
    \A elements \in Batches :
        (lst.elements = <<>> /\ lst.element_type = None)
        => /\ add_all(lst, elements).err = "TypeError"
              => /\ add_all(lst, elements).self.elements = <<>>
                 /\ add_all(lst, elements).self.element_type = None
                 /\ \A element \in Values :
                      add(add_all(lst, elements).self, element).err = "none"
           /\ add_all_at(lst, 0, elements).err = "TypeError"
              => /\ add_all_at(lst, 0, elements).self.elements = <<>>
                 /\ add_all_at(lst, 0, elements).self.element_type = None
                 /\ \A element \in Values :
                      add(add_all_at(lst, 0, elements).self, element).err
                        = "none"

(* add_all was rejected by an empty list, which is now bound to a type. *)
C23_BoundByRejectedBatch ==
    /\ op = "add_all"
    /\ err = "TypeError"
    /\ lst.elements = <<>>
    /\ lst.element_type # None
    /\ decl = None

(* C24: replace_all that raises TypeError has replaced no element. *)
C24_ReplaceAllAtomic ==
    \A operator \in Operators :
        replace_all(lst, operator).err = "TypeError"
        => replace_all(lst, operator).self.elements = lst.elements

(* replace_all raised TypeError after it had replaced the first element. *)
C24_PartlyReplaced ==
    /\ op = "replace_all"
    /\ err = "TypeError"
    /\ lst.element_type = Animal
    /\ lst.elements = <<"dog", "cat">>

(***************************************************************************)
(* Writes through the views                                                *)
(***************************************************************************)
(* A sub_list view refuses, with TypeError and without a change of the     *)
(* parent, every set, add, add_at and view[i] = v of a value that is not   *)
(* valid for the bound type of the parent.                                 *)
SubListWritesValidated ==
    \A element \in ViewValues :
        (lst.element_type # None
         /\ ~is_valid_element_type(element, lst.element_type))
        => /\ KotMutableSubList_add(TheView, element).err = "TypeError"
           /\ KotMutableSubList_add(TheView, element).self = TheView
           /\ \A index \in 0..(KotMutableSubList_size(TheView) - 1) :
                /\ KotMutableSubList_set(TheView, index, element).err
                     = "TypeError"
                /\ KotMutableSubList_set(TheView, index, element).self
                     = TheView
                /\ KotMutableSubList__setitem__(TheView, index, element).err
                     = "TypeError"
                /\ KotMutableSubList__setitem__(TheView, index, element).self
                     = TheView
           /\ \A index \in 0..KotMutableSubList_size(TheView) :
                /\ KotMutableSubList_add_at(TheView, index, element).err
                     = "TypeError"
                /\ KotMutableSubList_add_at(TheView, index, element).self
                     = TheView

(* C25: every element write through a view of a KotMutableList is          *)
(* validated against the bound type of the parent before the storage of    *)
(* the parent changes: view[i] = v on an as_reversed view with a value     *)
(* that is not valid raises TypeError and leaves the parent unchanged.     *)
C25_ReversedWritesValidated ==
    \A index \in 0..(size(lst) - 1), value \in ViewValues :
        (lst.element_type # None
         /\ ~is_valid_element_type(value, lst.element_type))
        => /\ KotReversedMutableList__setitem__(lst, index, value).err
                = "TypeError"
           /\ KotReversedMutableList__setitem__(lst, index, value).self = lst

(* A write through the reversed view has put a str into a list bound to    *)
(* Dog.                                                                    *)
C25_InvalidElementStored ==
    /\ op = "reversed.__setitem__"
    /\ err = "none"
    /\ lst.element_type = Dog
    /\ lst.elements = <<"dog", "hello">>

(***************************************************************************)
(* The bound type over the life of a list                                  *)
(***************************************************************************)
(* C26: an insertion that succeeds on a list with a bound type leaves the  *)
(* bound type as it was, and every element is accepted or rejected after   *)
(* it as before: subclass instances do not narrow the type.                *)
C26_InsertionKeepsBoundType ==
    [][(op' \in InsertionOps /\ err' = "none" /\ lst.element_type # None)
          => /\ lst'.element_type = lst.element_type
             /\ \A v \in Values : add(lst', v).err = add(lst, v).err]_vars

(* A Cat was added to a list bound to Animal that held only Dogs. *)
C26_Witness ==
    /\ op = "add"
    /\ err = "none"
    /\ lst.element_type = Animal
    /\ lst.elements = <<"dog", "dog", "cat">>

(* C27: a list declared with a class keeps that class as its bound type    *)
(* in every state, also after clear and after the removal of its last      *)
(* element: once emptied it still rejects an element of an unrelated       *)
(* class and is not bound again by inference.                              *)
C27_DeclaredTypeKept ==
    (decl # None /\ IsType(decl))
    => /\ lst.element_type = decl
       /\ size(lst) = 0
          => \A v \in Values :
               IF is_valid_element_type(v, decl)
               THEN /\ add(lst, v).err = "none"
                    /\ add(lst, v).self.element_type = decl
               ELSE /\ add(lst, v).err = "TypeError"
                    /\ add(lst, v).self = lst

(* The last element of a list declared with Dog was removed. *)
C27_Witness ==
    /\ decl = Dog
    /\ op = "remove_last"
    /\ err = "none"
    /\ lst.elements = <<>>
    /\ lst.element_type = Dog

ParentCall(name, r) ==
    /\ lst' = r.self
    /\ op' = name
    /\ err' = r.err
    /\ UNCHANGED <<subject, decl, batch, lst2, err2, kset, kmap, col, origin,
                   msg, view, it, legal, returned>>

ParentAdd ==
    /\ size(lst) < MaxLen
    /\ \E element \in ViewValues : ParentCall("parent.add", add(lst, element))

ParentRemoveAt ==
    \E index \in Indexes : ParentCall("parent.remove_at", remove_at(lst, index))

ParentClear == ParentCall("parent.clear", clear(lst))

(* add and add_at on the view move _end up even when the parent has been  *)
(* emptied under it: the window is kept within MaxLen                      *)
SharedViewAdd == view.end < MaxLen /\ ViewAdd

SharedViewAddAt == view.end < MaxLen /\ ViewAddAt

NextShared ==
    \/ ViewSetitem
    \/ ViewDelitem
    \/ SharedViewAdd
    \/ SharedViewAddAt
    \/ ViewSet
    \/ ViewRemoveAt
    \/ ViewClear
    \/ ViewRemoveAll
    \/ ParentSet
    \/ ParentAdd
    \/ ParentRemoveAt
    \/ ParentClear

SpecShared == InitView /\ [][NextShared]_vars

(* the window of the view lies inside the parent *)
WindowInsideParent ==
    /\ 0 <= view.start
    /\ view.start <= view.end
    /\ view.end <= size(lst)

(* size is the number of elements the view exposes, and each index below   *)
(* size can be read                                                        *)
SizeTruthful ==
    /\ KotMutableSubList_size(TheView) = Len(KotMutableSubList_elements(TheView))
    /\ \A i \in 0..(KotMutableSubList_size(TheView) - 1) :
          KotMutableSubList__getitem__(TheView, i).err = "none"

(* C29: under any interleaving of mutations through a sub_list view and    *)
(* mutations made on its parent, the window stays inside the parent        *)
(* (0 <= start <= end <= parent.size), the size of the view is the number  *)
(* of elements it exposes and every index below that size can be read.     *)
C29_WindowStaysInsideParent == WindowInsideParent /\ SizeTruthful

(* C29: while the parent changes its length only through the view, the     *)
(* window stays inside the parent and the size of the view is truthful.    *)
C29_WindowKeptByViewCalls ==
    [][(op' \notin {"parent.add", "parent.remove_at", "parent.clear"}
        /\ WindowInsideParent /\ SizeTruthful)
       => (WindowInsideParent' /\ SizeTruthful')]_vars

(* a parent emptied by its own clear under a view that still reports two   *)
(* elements                                                                *)
C29_StaleWindow ==
    /\ op = "parent.clear"
    /\ lst.elements = <<>>
    /\ view = [start |-> 1, end |-> 3]
    /\ KotMutableSubList_size(TheView) = 2
    /\ KotMutableSubList_elements(TheView) = <<>>
    /\ KotMutableSubList__getitem__(TheView, 0).err = "IndexError"

(***************************************************************************)
(* KotMutableList[T] for a TypeVar T side by side with KotMutableList      *)
(***************************************************************************)
(* lst is KotMutableList[T](b), lst2 is KotMutableList(b); a constructor   *)
(* that raises leaves no list behind                                       *)
InitTypeVar ==
    /\ decl = TypeVarT
    /\ \E b \in Batches :
          LET r == of_type(KotMutableList, decl, b)
              r2 == KotMutableList__init__(b)
          IN  /\ batch = b
              /\ lst = IF r.err = "none" THEN r.self
                       ELSE KotMutableList__init__(<<>>).self
              /\ err = r.err
              /\ lst2 = IF r2.err = "none" THEN r2.self
                        ELSE KotMutableList__init__(<<>>).self
              /\ err2 = r2.err
    /\ op = "__init__"
    /\ subject = "list"
    /\ NoViews
    /\ NoSet
    /\ NoMap
    /\ NoConversion

(* The same call made on both lists, once both have been constructed. *)
TypeVarBoth(name, r, r2) ==
    /\ ~(op = "__init__" /\ (err # "none" \/ err2 # "none"))
    /\ Both(name, r, r2)

TypeVarAdd ==
    /\ size(lst) < MaxLen
    /\ \E v \in Values : TypeVarBoth("add", add(lst, v), add(lst2, v))

TypeVarAddAt ==
    /\ size(lst) < MaxLen
    /\ \E i \in Indexes, v \in Values :
          TypeVarBoth("add_at", add_at(lst, i, v), add_at(lst2, i, v))

TypeVarAddAll ==
    \E b \in Batches :
        /\ size(lst) + Len(b) <= MaxLen
        /\ TypeVarBoth("add_all", add_all(lst, b), add_all(lst2, b))

TypeVarAddAllAt ==
    \E i \in Indexes, b \in Batches :
        /\ size(lst) + Len(b) <= MaxLen
        /\ TypeVarBoth("add_all_at", add_all_at(lst, i, b),
                       add_all_at(lst2, i, b))

TypeVarSet ==
    \E i \in Indexes, v \in Values :
        TypeVarBoth("set", set(lst, i, v), set(lst2, i, v))

TypeVarRemoveAt ==
    \E i \in Indexes :
        TypeVarBoth("remove_at", remove_at(lst, i), remove_at(lst2, i))

TypeVarRemove ==
    \E v \in Values : TypeVarBoth("remove", remove(lst, v), remove(lst2, v))

TypeVarReplaceAll ==
    \E f \in Operators :
        TypeVarBoth("replace_all", replace_all(lst, f), replace_all(lst2, f))

TypeVarClear == TypeVarBoth("clear", clear(lst), clear(lst2))

TypeVarFill ==
    \E v \in Values : TypeVarBoth("fill", fill(lst, v), fill(lst2, v))

NextTypeVar ==
    \/ TypeVarAdd
    \/ TypeVarAddAt
    \/ TypeVarAddAll
    \/ TypeVarAddAllAt
    \/ TypeVarSet
    \/ TypeVarRemoveAt
    \/ TypeVarRemove
    \/ TypeVarReplaceAll
    \/ TypeVarClear
    \/ TypeVarFill

SpecTypeVar == InitTypeVar /\ [][NextTypeVar]_vars

(* each call has raised on both lists or on neither and has left both with *)
(* the same elements and the same bound type, which is never the TypeVar;  *)
(* the variant constructed empty is Unset                                  *)
SameAsUndeclared ==
    /\ err = err2
    /\ lst.elements = lst2.elements
    /\ lst.element_type = lst2.element_type
    /\ lst.element_type # TypeVarT
    /\ (op = "__init__" /\ batch = <<>>) => lst.element_type = None

(* the element v was inserted into self at some position, giving after *)
Inserted(self, after, v) ==
    \E i \in 0..size(self) : after.elements = insert(self.elements, i, <<v>>)

(* an add or add_at that succeeds on an Unset list binds the type inferred *)
(* from the inserted element; one that succeeds on a bound list has        *)
(* inserted an element valid for the bound type, which stays               *)
InsertionBindsOrValidates ==
    (op' \in {"add", "add_at"} /\ err' = "none")
    => \E v \in Values :
          /\ Inserted(lst, lst', v)
          /\ IF lst.element_type = None
             THEN lst'.element_type = infer_element_type(v, KotList)
             ELSE /\ is_valid_element_type(v, lst.element_type)
                  /\ lst'.element_type = lst.element_type

(* C30: a KotMutableList declared with a TypeVar starts Unset and behaves  *)
(* like an undeclared KotMutableList under every sequence of calls (same   *)
(* errors, same elements, same bound type): the first inserted element     *)
(* binds the type inferred from it, and afterwards only elements valid for *)
(* the bound type are accepted, the others raising TypeError on both.      *)
C30_TypeVarVariantBehavesUndeclared ==
    []SameAsUndeclared /\ [][InsertionBindsOrValidates]_vars

(* the list declared with T and bound to Dog by its first element has      *)
(* refused a str, as the undeclared list has                               *)
C30_Witness ==
    /\ decl = TypeVarT
    /\ op = "add"
    /\ err = "TypeError"
    /\ err2 = "TypeError"
    /\ lst.cls = __class_getitem__(KotMutableList, TypeVarT).mro
    /\ lst.element_type = Dog
    /\ lst.elements = <<"dog">>
    /\ lst2.cls = KotMutableList

====
